---- MODULE Spec2Model ----
(***************************************************************************)
(* A model of gnark's circuit frontend and PLONK prover:                   *)
(*   - Prove (backend/plonk prover): the main routine, its worker          *)
(*     goroutines, the Fiat-Shamir transcript and the error returns;       *)
(*   - frontend.Compile / compile and the test helper Assert.compile;      *)
(*   - the R1CS builder API (Add, Sub, Mul, Inverse, IsZero, Select ...)   *)
(*     over a small prime field.                                           *)
(* Each part has its own specification over its own variables; the other   *)
(* variables are held at their idle value.                                 *)
(***************************************************************************)
EXTENDS Integers, Sequences, FiniteSets, TLC

VARIABLES
    \* ---- Prove -------------------------------------------------------
    pc,          \* position of Prove's main routine
    wk,          \* state of every worker goroutine
    mem,         \* the proof fields and err0/err1 shared with the workers
    fs,          \* the operations performed on the Fiat-Shamir transcript
    outcome,     \* result of every fallible step: "pending", "ok" or "fail"
    ret,         \* what Prove returned: [proof, err]
    closeOrder,  \* the workers in the order they closed their channel
    \* ---- Compile and the test helper ----------------------------------
    circ,        \* the circuit: its leaves and what its Define does
    copts,       \* the options passed to Compile
    bchecks,     \* whether this builder's Compile() rejects unconstrained inputs
    cpc,         \* position of the running Compile
    cidx,        \* index of the option, leaf or Define step it is at
    copt,        \* the CompileOption being set up
    bld,         \* the builder: allocated inputs and emitted constraints
    cbeh,        \* what Define does in this run: order of its calls, its end
    clog,        \* the calls Compile made so far
    cres,        \* what Compile returned: [ccs, err]
    escaped,     \* a panic propagated out of Compile
    hpc,         \* position of Assert.compile
    hres,        \* results of the Compile calls of the last Assert.compile
    cache,       \* assert.compiled[key]
    hret,        \* what Assert.compile returned
    hcalls,      \* number of calls of Assert.compile
    \* ---- the R1CS builder ---------------------------------------------
    r1cs,        \* the builder: backend, constraints, internal wires, hints, boolean markers
    pool,        \* the Variables the circuit holds: its inputs and the results so far
    last,        \* the last API call: its operands, its result, the builder before it
    nops,        \* number of API calls made
    \* ---- the PLONK builder --------------------------------------------
    system,      \* the sparseR1CS: gates, internal wires, table of boolean terms
    terms,       \* the Terms the circuit holds: its inputs and the results so far
    lastP,       \* the last call on the PLONK builder and the builder before it
    nopsP,       \* number of calls made on the PLONK builder
    \* ---- Assert.Fuzz ---------------------------------------------------
    engineOk,    \* the witnesses the big-integer test engine accepts
    solverOk,    \* the witnesses the solver of the backend accepts
    compileOk,   \* whether the circuit compiles
    fuzzCount,   \* the fuzzCount argument of Fuzz
    fpc,         \* position of the subtest of Fuzz
    fw,          \* the witness the fuzzer filled in
    flog,        \* the fuzzer calls made: the witness and how the call ended
    valid,       \* the local variable valid of the subtest
    \* ---- the polynomials of Prove ---------------------------------------
    pk,          \* the proving key: the two domains, the shifters, the permutation
    spr,         \* the compiled system: public variables, constraints, assertions
    solution,    \* what spr.Solve returned
    rnd,         \* the values SetRandom returns, in the order of its calls
    ppc,         \* the statement of Prove that runs next
    poly,        \* the polynomials computed so far and the panic, if any
    \* ---- the term lists of the builder in memory ------------------------
    heap,        \* the backing arrays of the linear expressions
    held,        \* the Variables the circuit holds: an array and a length each
    lastH,       \* the last call: its operands, its result, the arrays before it
    nopsH        \* number of calls made

proveVars == <<pc, wk, mem, fs, outcome, ret, closeOrder>>

runVars == <<cpc, cidx, copt, bld, cbeh, clog, cres, escaped>>

compileVars == <<circ, copts, bchecks, cpc, cidx, copt, bld, cbeh, clog, cres, escaped,
                 hpc, hres, cache, hret, hcalls>>

\* the variables each specification leaves alone
builderVars == <<r1cs, pool, last, nops>>

plonkVars == <<system, terms, lastP, nopsP>>

fuzzVars == <<engineOk, solverOk, compileOk, fuzzCount, fpc, fw, flog, valid>>

polyVars == <<pk, spr, solution, rnd, ppc, poly>>

heapVars == <<heap, held, lastH, nopsH>>

idleInProve == <<compileVars, builderVars, plonkVars, fuzzVars, polyVars, heapVars>>

idleInCompile == <<proveVars, builderVars, plonkVars, fuzzVars, polyVars, heapVars>>

idleInBuilder == <<proveVars, compileVars, plonkVars, fuzzVars, polyVars, heapVars>>

idleInPlonk == <<proveVars, compileVars, builderVars, fuzzVars, polyVars, heapVars>>

idleInFuzz == <<proveVars, compileVars, builderVars, plonkVars, polyVars, heapVars>>

idleInPoly == <<proveVars, compileVars, builderVars, plonkVars, fuzzVars, heapVars>>

idleInHeap == <<proveVars, compileVars, builderVars, plonkVars, fuzzVars, polyVars>>

vars == <<proveVars, compileVars, builderVars, plonkVars, fuzzVars, polyVars, heapVars>>

(***************************************************************************)
(*                               Prove                                     *)
(***************************************************************************)

\* The goroutines Prove starts: the two BitReverse tasks of the WaitGroup,
\* the Round-1 commitment workers, the Z worker, the two constraint
\* evaluation workers and the Round-3 commitment workers.
Workers == {"brL", "brR", "c0", "c1", "wz", "wInd", "wOrd", "h0", "h1"}

\* The fallible steps of Prove.
Steps == {"Solve", "CommitL", "CommitR", "CommitO", "BindG0", "BindG1", "BindG2",
          "ChalGamma", "CommitZ", "BindAlpha", "ChalAlpha", "CommitH0", "CommitH1",
          "CommitH2", "BindZ0", "BindZ1", "BindZ2", "ChalZeta", "OpenZ",
          "CommitLin", "BatchOpen"}

\* The shared variables whose value the model tracks.
MemVars == {"LRO0", "LRO1", "LRO2", "Z", "H0", "H1", "H2", "err0", "err1"}

ErrVars == {"err0", "err1"}

\* ---- statement constructors --------------------------------------------
NoOp == [op |-> "none", label |-> "none", data |-> "none"]

Local(next, R, W) ==
    [kind |-> "local", next |-> next, reads |-> R, writes |-> W, ws |-> {},
     w |-> "none", v |-> "none", step |-> "none", sets |-> "none", fsop |-> NoOp]

Spawn(next, ws) ==
    [kind |-> "spawn", next |-> next, reads |-> {}, writes |-> {}, ws |-> ws,
     w |-> "none", v |-> "none", step |-> "none", sets |-> "none", fsop |-> NoOp]

Wait(next, w) ==
    [kind |-> "wait", next |-> next, reads |-> {}, writes |-> {}, ws |-> {},
     w |-> w, v |-> "none", step |-> "none", sets |-> "none", fsop |-> NoOp]

ErrChk(next, v) ==
    [kind |-> "errchk", next |-> next, reads |-> {v}, writes |-> {}, ws |-> {},
     w |-> "none", v |-> v, step |-> "none", sets |-> "none", fsop |-> NoOp]

\* a fallible call of the main routine: on failure Prove returns (nil, err)
Call(next, step, R, W, sets, fsop) ==
    [kind |-> "call", next |-> next, reads |-> R, writes |-> W \cup {"err"}, ws |-> {},
     w |-> "none", v |-> "none", step |-> step, sets |-> sets, fsop |-> fsop]

Return ==
    [kind |-> "ret", next |-> "done", reads |-> {}, writes |-> {}, ws |-> {},
     w |-> "none", v |-> "none", step |-> "none", sets |-> "none", fsop |-> NoOp]

Bind(label, data) == [op |-> "Bind", label |-> label, data |-> data]

Challenge(label) == [op |-> "ComputeChallenge", label |-> label, data |-> "none"]

\* ---- the statements the claims single out ------------------------------
\* <-chCommit0
SkipWaitCommit0 == Local("chk0", {}, {})
WaitCommit0 == Wait("chk0", "c0")

\* <-chCommit1
SkipWaitCommit1 == Local("chk1", {}, {})
WaitCommit1 == Wait("chk1", "c1")

\* if err1 != nil { return nil, err1 }
SkipCheckErr1 == Local("bindG1", {}, {})
CheckErr1 == ErrChk("bindG1", "err1")

\* ---- the program of the main routine -----------------------------------
Round1Stmt(p) ==
    CASE p = "solve"    -> Call("lro", "Solve", {}, {"solution"}, "none", NoOp)
      [] p = "lro"      -> Local("brSpawn", {"solution"}, {"ll", "lr", "lo", "cl", "cr", "co"})
      [] p = "brSpawn"  -> Spawn("brCo", {"brL", "brR"})
      [] p = "brCo"     -> Local("wgWaitL", {"co"}, {"co"})
      [] p = "wgWaitL"  -> Wait("wgWaitR", "brL")
      [] p = "wgWaitR"  -> Wait("blind", "brR")
      [] p = "blind"    -> Local("spawnC", {"cl", "cr", "co"}, {"cl", "cr", "co"})
      [] p = "spawnC"   -> Spawn("commitO", {"c0", "c1"})
      [] p = "commitO"  -> Call("wait0", "CommitO", {"co"}, {"LRO2"}, "LRO2", NoOp)
      [] p = "wait0"    -> WaitCommit0
      [] p = "chk0"     -> ErrChk("bindG0", "err0")
      [] p = "bindG0"   -> Call("wait1", "BindG0", {"LRO0"}, {}, "none", Bind("gamma", "LRO0"))
      [] p = "wait1"    -> WaitCommit1
      [] p = "chk1"     -> CheckErr1
      [] p = "bindG1"   -> Call("bindG2", "BindG1", {"LRO1"}, {}, "none", Bind("gamma", "LRO1"))
      [] p = "bindG2"   -> Call("chalG", "BindG2", {"LRO2"}, {}, "none", Bind("gamma", "LRO2"))
      [] p = "chalG"    -> Call("spawnZ", "ChalGamma", {}, {"gamma"}, "none", Challenge("gamma"))

Round2Stmt(p) ==
    CASE p = "spawnZ"   -> Spawn("qk", {"wz"})
      [] p = "qk"       -> Local("evalLRO", {}, {"qkFullC"})
      [] p = "evalLRO"  -> Local("spawnInd", {"cl", "cr", "co"}, {"evalL", "evalR", "evalO"})
      [] p = "spawnInd" -> Spawn("waitZ", {"wInd"})
      [] p = "waitZ"    -> Wait("blindZ", "wz")
      [] p = "blindZ"   -> Local("commitZ", {"z"}, {"z"})
      [] p = "commitZ"  -> Call("evalZ", "CommitZ", {"z"}, {"Z"}, "Z", NoOp)
      [] p = "evalZ"    -> Local("spawnOrd", {"z"}, {"evalZ"})
      [] p = "spawnOrd" -> Spawn("startsAtOne", {"wOrd"})
      [] p = "startsAtOne" -> Local("bindA", {"evalZ"}, {"startsAtOne"})
      [] p = "bindA"    -> Call("chalA", "BindAlpha", {"Z"}, {}, "none", Bind("alpha", "Z"))
      [] p = "chalA"    -> Call("waitInd", "ChalAlpha", {}, {"alpha"}, "none", Challenge("alpha"))

Round3Stmt(p) ==
    CASE p = "waitInd"  -> Wait("waitOrd", "wInd")
      [] p = "waitOrd"  -> Wait("computeH", "wOrd")
      [] p = "computeH" -> Local("spawnH", {"constraintsInd", "constraintsOrdering", "startsAtOne", "alpha"},
                                 {"h1", "h2", "h3"})
      [] p = "spawnH"   -> Spawn("commitH2", {"h0", "h1"})
      [] p = "commitH2" -> Call("waitH0", "CommitH2", {"h3"}, {"H2"}, "H2", NoOp)
      [] p = "waitH0"   -> Wait("chkH0", "h0")
      [] p = "chkH0"    -> ErrChk("bindZ0", "err0")
      [] p = "bindZ0"   -> Call("waitH1", "BindZ0", {"H0"}, {}, "none", Bind("zeta", "H0"))
      [] p = "waitH1"   -> Wait("chkH1", "h1")
      [] p = "chkH1"    -> ErrChk("bindZ1", "err1")
      [] p = "bindZ1"   -> Call("bindZ2", "BindZ1", {"H1"}, {}, "none", Bind("zeta", "H1"))
      [] p = "bindZ2"   -> Call("chalZ", "BindZ2", {"H2"}, {}, "none", Bind("zeta", "H2"))
      [] p = "chalZ"    -> Call("openZ", "ChalZeta", {}, {"zeta"}, "none", Challenge("zeta"))

Round4Stmt(p) ==
    CASE p = "openZ"    -> Call("linearize", "OpenZ", {"z", "zeta"}, {"ZShiftedOpening"}, "none", NoOp)
      [] p = "linearize" -> Local("commitLin", {"cl", "cr", "co", "z", "alpha", "gamma", "zeta",
                                                "H0", "H1", "H2", "h1", "h2", "h3"},
                                  {"linearizedPolynomial", "h3"})
      [] p = "commitLin" -> Call("batchOpen", "CommitLin", {"linearizedPolynomial"}, {}, "none", NoOp)
      [] p = "batchOpen" -> Call("return", "BatchOpen",
                                 {"h3", "linearizedPolynomial", "cl", "cr", "co", "LRO0", "LRO1", "LRO2"},
                                 {"BatchedProof"}, "none", NoOp)
      [] p = "return"   -> Return

Round1PCs == {"solve", "lro", "brSpawn", "brCo", "wgWaitL", "wgWaitR", "blind", "spawnC",
              "commitO", "wait0", "chk0", "bindG0", "wait1", "chk1", "bindG1", "bindG2", "chalG"}
Round2PCs == {"spawnZ", "qk", "evalLRO", "spawnInd", "waitZ", "blindZ", "commitZ", "evalZ",
              "spawnOrd", "startsAtOne", "bindA", "chalA"}
Round3PCs == {"waitInd", "waitOrd", "computeH", "spawnH", "commitH2", "waitH0", "chkH0",
              "bindZ0", "waitH1", "chkH1", "bindZ1", "bindZ2", "chalZ"}
Round4PCs == {"openZ", "linearize", "commitLin", "batchOpen", "return"}

Stmt(p) ==
    CASE p \in Round1PCs -> Round1Stmt(p)
      [] p \in Round2PCs -> Round2Stmt(p)
      [] p \in Round3PCs -> Round3Stmt(p)
      [] p \in Round4PCs -> Round4Stmt(p)
      [] OTHER           -> Local("done", {}, {})

\* ---- the worker goroutines ---------------------------------------------
\* what a worker reads and writes, the fallible step it runs (or "none"), the
\* proof field and the error variable it assigns
WorkerTask(w) ==
    CASE w = "brL"  -> [reads |-> {"cl"}, writes |-> {"cl"}, step |-> "none", sets |-> "none", errv |-> "none"]
      [] w = "brR"  -> [reads |-> {"cr"}, writes |-> {"cr"}, step |-> "none", sets |-> "none", errv |-> "none"]
      [] w = "c0"   -> [reads |-> {"cl"}, writes |-> {"LRO0", "err0"}, step |-> "CommitL", sets |-> "LRO0", errv |-> "err0"]
      [] w = "c1"   -> [reads |-> {"cr"}, writes |-> {"LRO1", "err1"}, step |-> "CommitR", sets |-> "LRO1", errv |-> "err1"]
      [] w = "wz"   -> [reads |-> {"ll", "lr", "lo", "gamma"}, writes |-> {"z"}, step |-> "none", sets |-> "none", errv |-> "none"]
      [] w = "wInd" -> [reads |-> {"evalL", "evalR", "evalO", "qkFullC"}, writes |-> {"constraintsInd"},
                        step |-> "none", sets |-> "none", errv |-> "none"]
      [] w = "wOrd" -> [reads |-> {"evalZ", "evalL", "evalR", "evalO", "gamma"}, writes |-> {"constraintsOrdering"},
                        step |-> "none", sets |-> "none", errv |-> "none"]
      [] w = "h0"   -> [reads |-> {"h1"}, writes |-> {"H0", "err0"}, step |-> "CommitH0", sets |-> "H0", errv |-> "err0"]
      [] w = "h1"   -> [reads |-> {"h2"}, writes |-> {"H1", "err1"}, step |-> "CommitH1", sets |-> "H1", errv |-> "err1"]

\* ---- initial state ------------------------------------------------------
ProveInit ==
    /\ pc = "solve"
    /\ wk = [w \in Workers |-> "idle"]
    /\ mem = [v \in MemVars |-> IF v \in ErrVars THEN "nil" ELSE "unset"]
    /\ fs = <<>>
    /\ outcome = [s \in Steps |-> "pending"]
    /\ ret = [proof |-> "none", err |-> "none"]
    /\ closeOrder = <<>>

\* ---- actions of the main routine ---------------------------------------
\* a computation of the main routine that cannot fail
MainLocal ==
    /\ UNCHANGED idleInProve
    /\ pc # "done"
    /\ Stmt(pc).kind = "local"
    /\ pc' = Stmt(pc).next
    /\ UNCHANGED <<wk, mem, fs, outcome, ret, closeOrder>>

\* go func() { ... }()
MainSpawn ==
    /\ UNCHANGED idleInProve
    /\ pc # "done"
    /\ Stmt(pc).kind = "spawn"
    /\ wk' = [w \in Workers |-> IF w \in Stmt(pc).ws THEN "run" ELSE wk[w]]
    /\ pc' = Stmt(pc).next
    /\ UNCHANGED <<mem, fs, outcome, ret, closeOrder>>

\* <-ch (or wg.Wait): blocks until the worker closed its channel
MainWait ==
    /\ UNCHANGED idleInProve
    /\ pc # "done"
    /\ Stmt(pc).kind = "wait"
    /\ wk[Stmt(pc).w] = "closed"
    /\ pc' = Stmt(pc).next
    /\ UNCHANGED <<wk, mem, fs, outcome, ret, closeOrder>>

\* if errN != nil { return nil, errN }
MainErrCheck ==
    /\ UNCHANGED idleInProve
    /\ pc # "done"
    /\ Stmt(pc).kind = "errchk"
    /\ IF mem[Stmt(pc).v] # "nil"
         THEN /\ pc' = "done"
              /\ ret' = [proof |-> "nil", err |-> mem[Stmt(pc).v]]
         ELSE /\ pc' = Stmt(pc).next
              /\ UNCHANGED ret
    /\ UNCHANGED <<wk, mem, fs, outcome, closeOrder>>

\* x, err = f(...); if err != nil { return nil, err }
MainCall ==
    /\ UNCHANGED idleInProve
    /\ pc # "done"
    /\ Stmt(pc).kind = "call"
    /\ \E ok \in BOOLEAN :
         LET s == Stmt(pc) IN
         /\ outcome' = [outcome EXCEPT ![s.step] = IF ok THEN "ok" ELSE "fail"]
         /\ mem' = IF s.sets = "none" THEN mem
                   ELSE [mem EXCEPT ![s.sets] = IF ok THEN "digest" ELSE "zero"]
         /\ IF ok
              THEN /\ pc' = s.next
                   /\ fs' = IF s.fsop.op = "none" THEN fs
                            ELSE Append(fs, [op |-> s.fsop.op, label |-> s.fsop.label,
                                             data |-> s.fsop.data,
                                             val |-> IF s.fsop.data = "none" THEN "none"
                                                     ELSE mem[s.fsop.data]])
                   /\ UNCHANGED ret
              ELSE /\ pc' = "done"
                   /\ ret' = [proof |-> "nil", err |-> s.step]
                   /\ UNCHANGED fs
    /\ UNCHANGED <<wk, closeOrder>>

\* return proof, nil
MainReturn ==
    /\ UNCHANGED idleInProve
    /\ pc # "done"
    /\ Stmt(pc).kind = "ret"
    /\ pc' = "done"
    /\ ret' = [proof |-> "proof", err |-> "nil"]
    /\ UNCHANGED <<wk, mem, fs, outcome, closeOrder>>

\* ---- actions of the workers --------------------------------------------
\* the body of the goroutine: proof.X, errN = kzg.Commit(...), or a computation
WorkerRun(w) ==
    /\ UNCHANGED idleInProve
    /\ wk[w] = "run"
    /\ wk' = [wk EXCEPT ![w] = "wrote"]
    /\ LET t == WorkerTask(w) IN
         IF t.step = "none"
           THEN UNCHANGED <<mem, outcome>>
           ELSE \E ok \in BOOLEAN :
                  /\ outcome' = [outcome EXCEPT ![t.step] = IF ok THEN "ok" ELSE "fail"]
                  /\ mem' = [mem EXCEPT ![t.sets] = IF ok THEN "digest" ELSE "zero",
                                        ![t.errv] = IF ok THEN "nil" ELSE t.step]
    /\ UNCHANGED <<pc, fs, ret, closeOrder>>

\* close(ch) (or wg.Done)
WorkerClose(w) ==
    /\ UNCHANGED idleInProve
    /\ wk[w] = "wrote"
    /\ wk' = [wk EXCEPT ![w] = "closed"]
    /\ closeOrder' = Append(closeOrder, w)
    /\ UNCHANGED <<pc, mem, fs, outcome, ret>>

ProveNext ==
    \/ MainLocal
    \/ MainSpawn
    \/ MainWait
    \/ MainErrCheck
    \/ MainCall
    \/ MainReturn
    \/ \E w \in Workers : WorkerRun(w)
    \/ \E w \in Workers : WorkerClose(w)


(***************************************************************************)
(*                        Properties of Prove                              *)
(***************************************************************************)

\* the transcript of a complete run, every bound commitment already computed
CanonicalTranscript ==
    << [op |-> "Bind", label |-> "gamma", data |-> "LRO0", val |-> "digest"],
       [op |-> "Bind", label |-> "gamma", data |-> "LRO1", val |-> "digest"],
       [op |-> "Bind", label |-> "gamma", data |-> "LRO2", val |-> "digest"],
       [op |-> "ComputeChallenge", label |-> "gamma", data |-> "none", val |-> "none"],
       [op |-> "Bind", label |-> "alpha", data |-> "Z", val |-> "digest"],
       [op |-> "ComputeChallenge", label |-> "alpha", data |-> "none", val |-> "none"],
       [op |-> "Bind", label |-> "zeta", data |-> "H0", val |-> "digest"],
       [op |-> "Bind", label |-> "zeta", data |-> "H1", val |-> "digest"],
       [op |-> "Bind", label |-> "zeta", data |-> "H2", val |-> "digest"],
       [op |-> "ComputeChallenge", label |-> "zeta", data |-> "none", val |-> "none"] >>

\* C1: in every execution of Prove, whatever the interleaving of the workers,
\* the transcript operations performed so far are a prefix of
\* Bind(gamma,LRO[0..2]), Challenge(gamma), Bind(alpha,Z), Challenge(alpha),
\* Bind(zeta,H[0..2]), Challenge(zeta), every bound commitment being computed
\* when it is absorbed; a returned proof has the whole sequence behind it.
C1_TranscriptOrder ==
    /\ \E n \in 0..Len(CanonicalTranscript) : fs = SubSeq(CanonicalTranscript, 1, n)
    /\ ret.proof = "proof" => fs = CanonicalTranscript

\* a complete run in which the worker of LRO[1] closed before the worker of LRO[0]
C1_Witness ==
    /\ ret.proof = "proof"
    /\ fs = CanonicalTranscript
    /\ \E i, j \in 1..Len(closeOrder) :
         i < j /\ closeOrder[i] = "c1" /\ closeOrder[j] = "c0"

\* the fallible steps in the order the main routine inspects their result
CheckOrder ==
    << "Solve", "CommitO", "CommitL", "BindG0", "CommitR", "BindG1", "BindG2", "ChalGamma",
       "CommitZ", "BindAlpha", "ChalAlpha", "CommitH2", "CommitH0", "BindZ0", "CommitH1",
       "BindZ1", "BindZ2", "ChalZeta", "OpenZ", "CommitLin", "BatchOpen" >>

\* C2: Prove returns a proof only when every fallible step succeeded; otherwise
\* it returns nil with the error of the first step, in the order the main
\* routine inspects them, that failed; when Solve fails nothing was committed,
\* no worker was started and nothing was absorbed.
C2_ErrorReturn ==
    /\ pc # "done" => ret = [proof |-> "none", err |-> "none"]
    /\ pc = "done" => ret.proof \in {"proof", "nil"}
    /\ ret.proof = "proof" => ret.err = "nil" /\ \A s \in Steps : outcome[s] = "ok"
    /\ ret.proof = "nil" =>
         \E k \in 1..Len(CheckOrder) :
            /\ CheckOrder[k] = ret.err
            /\ outcome[ret.err] = "fail"
            /\ \A j \in 1..(k - 1) : outcome[CheckOrder[j]] = "ok"
    /\ outcome["Solve"] = "fail" =>
         /\ ret = [proof |-> "nil", err |-> "Solve"]
         /\ \A w \in Workers : wk[w] = "idle"
         /\ \A v \in MemVars \ ErrVars : mem[v] = "unset"
         /\ fs = <<>>

\* Prove returned the error a worker stored in err1
C2_Witness ==
    /\ pc = "done"
    /\ ret = [proof |-> "nil", err |-> "CommitR"]
    /\ outcome["CommitL"] = "ok"

\* a worker between its go statement and the close of its channel
Live(w) == wk[w] \in {"run", "wrote"}

\* two tasks conflict when one writes what the other reads or writes
Conflict(a, b) ==
    \/ a.writes \cap (b.reads \cup b.writes) # {}
    \/ b.writes \cap a.reads # {}

\* C3: no two tasks running concurrently access the same variable with one of
\* them writing it: the main routine never reads or writes what a worker that
\* has not closed its channel writes (nor writes what it reads), and two
\* workers that are live together (the Round-1 and Round-3 workers share err0
\* and err1) touch disjoint variables.
C3_NoDataRace ==
    /\ \A w \in Workers :
         (Live(w) /\ pc # "done") => ~Conflict(Stmt(pc), WorkerTask(w))
    /\ \A w1, w2 \in Workers :
         (w1 # w2 /\ Live(w1) /\ Live(w2)) => ~Conflict(WorkerTask(w1), WorkerTask(w2))

\* both Round-3 commitment workers run, after the Round-1 workers that wrote
\* the same err0 and err1 closed their channels
C3_Witness ==
    /\ Live("h0") /\ Live("h1")
    /\ wk["c0"] = "closed" /\ wk["c1"] = "closed"
    /\ wk["h1"] = "wrote" /\ mem["err1"] = "CommitH1"

(***************************************************************************)
(*                 frontend.Compile and Assert.compile                     *)
(***************************************************************************)

MaxLeaves == 2
MaxProg == 2
MaxOpts == 1
MaxHelperCalls == 2

SeqsUpTo(S, n) == UNION {[1..k -> S] : k \in 0..n}

\* a leaf of the circuit as the handler sees it: tInput.CanSet() and visibility
LeafKinds ==
    { [settable |-> TRUE,  visibility |-> "Secret"],
      [settable |-> TRUE,  visibility |-> "Public"],
      [settable |-> TRUE,  visibility |-> "Unset"],
      [settable |-> FALSE, visibility |-> "Secret"] }

\* the options: WithCapacity, IgnoreUnconstrainedInputs, and a caller's
\* function that returns an error
OptionKinds == {"WithCapacity", "IgnoreUnconstrainedInputs", "Failing"}

\* the calls Define makes on the builder: one that emits a constraint over
\* input leaf i, and one that panics (Div by the constant 0)
BuilderCalls(n) ==
    {[op |-> "use", leaf |-> i] : i \in 1..n} \cup {[op |-> "panic", leaf |-> 0]}

\* how Define ends after its calls: return nil, return an error, runtime fault
DefineEnds == {"nil", "err", "fault"}

\* det: Define makes the same calls in the same order every time it runs
Circuits ==
    { c \in [leaves : SeqsUpTo(LeafKinds, MaxLeaves),
             prog   : SeqsUpTo(BuilderCalls(MaxLeaves), MaxProg),
             end    : DefineEnds,
             det    : BOOLEAN] :
        \A i \in DOMAIN c.prog : c.prog[i].leaf <= Len(c.leaves) }

NoErr == <<>>

NilCcs == [isNil |-> TRUE, nbPublic |-> 0, nbSecret |-> 0, constraints |-> <<>>]

NoResult == [ccs |-> NilCcs, err |-> NoErr, returned |-> FALSE]

Returns(ccs, err) == [ccs |-> ccs, err |-> err, returned |-> TRUE]

NewBuilder == [public |-> <<>>, secret |-> <<>>, constraints |-> <<>>]

IdleBehaviour == [order |-> <<>>, end |-> "nil"]

\* opt := CompileOption{}
ZeroOption == [capacity |-> 0, ignoreUnconstrainedInputs |-> FALSE]

\* o(&opt)
ApplyOpt(kind, o) ==
    CASE kind = "WithCapacity" ->
           [opt |-> [o EXCEPT !.capacity = 1], err |-> NoErr]
      [] kind = "IgnoreUnconstrainedInputs" ->
           [opt |-> [o EXCEPT !.ignoreUnconstrainedInputs = TRUE], err |-> NoErr]
      [] OTHER ->
           [opt |-> o, err |-> <<"option error">>]

\* the leaf handler with the case of an unset visibility left out
HandlerNoUnsetCase(leaf) ==
    IF leaf.settable
      THEN CASE leaf.visibility = "Secret" -> [call |-> "NewSecretVariable", err |-> NoErr]
             [] leaf.visibility = "Public" -> [call |-> "NewPublicVariable", err |-> NoErr]
             [] OTHER                      -> [call |-> "none", err |-> NoErr]
      ELSE [call |-> "none", err |-> <<"can't set val">>]

\* the leaf handler of compile
Handler(leaf) ==
    IF leaf.settable
      THEN CASE leaf.visibility = "Secret" -> [call |-> "NewSecretVariable", err |-> NoErr]
             [] leaf.visibility = "Public" -> [call |-> "NewPublicVariable", err |-> NoErr]
             [] OTHER -> [call |-> "none", err |-> <<"can't set val, visibility is unset">>]
      ELSE [call |-> "none", err |-> <<"can't set val">>]

\* builder.NewPublicVariable / NewSecretVariable
Allocate(b, call, i) ==
    CASE call = "NewPublicVariable" -> [b EXCEPT !.public = Append(@, i)]
      [] call = "NewSecretVariable" -> [b EXCEPT !.secret = Append(@, i)]
      [] OTHER -> b

Range(f) == {f[i] : i \in DOMAIN f}

\* some allocated input is referenced by no constraint
Unconstrained(b) ==
    \E i \in Range(b.public) \cup Range(b.secret) : i \notin Range(b.constraints)

\* builder.Compile(): it takes no option; whether it rejects unconstrained
\* inputs is a property of the builder
BuilderCompile(b) ==
    IF bchecks /\ Unconstrained(b)
      THEN [ccs |-> NilCcs, err |-> <<"unconstrained input">>]
      ELSE [ccs |-> [isNil |-> FALSE, nbPublic |-> Len(b.public), nbSecret |-> Len(b.secret),
                     constraints |-> b.constraints],
            err |-> NoErr]

\* the deferred recover installed only after Define returned
DeferActiveLate(p) == p = "bcompile"

\* the deferred recover is installed after Visit, before Define is called
DeferActive(p) == p \in {"define", "bcompile"}

\* err = fmt.Errorf("%v\n%s", r, debug.Stack())
Recovered(r) == <<"panic", r, "stack">>

\* Compile wraps the error of compile
Wrap(err) == <<"compile">> \o err

Orders(n) ==
    { f \in [1..n -> 1..n] : \A i, j \in 1..n : f[i] = f[j] => i = j }

\* what one run of Define may do
Behaviours(c) ==
    IF c.det
      THEN { [order |-> [i \in 1..Len(c.prog) |-> i], end |-> c.end] }
      ELSE { [order |-> f, end |-> e] : f \in Orders(Len(c.prog)), e \in DefineEnds }

Logged(call, arg) == [call |-> call, arg |-> arg]

\* the tail of Assert.compile with the DeepEqual comparison left out
CompileTailNoCompare(ccs, second) ==
    IF second.err # NoErr
      THEN [ccs |-> NilCcs, err |-> <<"ErrCompilationNotDeterministic">> \o second.err, store |-> FALSE]
      ELSE [ccs |-> ccs, err |-> NoErr, store |-> TRUE]

\* the tail of Assert.compile: ccs is the first result, second the second
CompileTail(ccs, second) ==
    IF second.err # NoErr
      THEN [ccs |-> NilCcs, err |-> <<"ErrCompilationNotDeterministic">> \o second.err, store |-> FALSE]
      ELSE IF ccs # second.ccs
             THEN [ccs |-> NilCcs, err |-> <<"ErrCompilationNotDeterministic">>, store |-> FALSE]
             ELSE [ccs |-> ccs, err |-> NoErr, store |-> TRUE]

NoHelperReturn == [ccs |-> NilCcs, err |-> NoErr, from |-> "none"]

\* ---- initial state ------------------------------------------------------
RunIdle ==
    /\ cpc = "idle"
    /\ cidx = 0
    /\ copt = ZeroOption
    /\ bld = NewBuilder
    /\ cbeh = IdleBehaviour
    /\ clog = <<>>
    /\ cres = NoResult
    /\ escaped = FALSE

CompileInit ==
    /\ circ \in Circuits
    /\ copts \in SeqsUpTo(OptionKinds, MaxOpts)
    /\ bchecks \in BOOLEAN
    /\ RunIdle
    /\ hpc = "idle"
    /\ hres = <<>>
    /\ cache = NilCcs
    /\ hret = NoHelperReturn
    /\ hcalls = 0

\* Compile is entered with a fresh builder
StartRun ==
    /\ cpc' = "opts"
    /\ cidx' = 1
    /\ copt' = ZeroOption
    /\ bld' = NewBuilder
    /\ cbeh' = IdleBehaviour
    /\ clog' = <<>>
    /\ cres' = NoResult
    /\ UNCHANGED escaped

\* ---- Compile ------------------------------------------------------------
\* for _, o := range opts { if err := o(&opt); err != nil { return ... } }
ApplyOption ==
    /\ UNCHANGED idleInCompile
    /\ cpc = "opts" /\ cidx <= Len(copts)
    /\ LET r == ApplyOpt(copts[cidx], copt) IN
         /\ clog' = Append(clog, Logged("option", cidx))
         /\ IF r.err # NoErr
              THEN /\ cres' = Returns(NilCcs, <<"apply option">> \o r.err)
                   /\ cpc' = "done"
                   /\ UNCHANGED <<cidx, copt>>
              ELSE /\ copt' = r.opt
                   /\ cidx' = cidx + 1
                   /\ UNCHANGED <<cpc, cres>>
    /\ UNCHANGED <<circ, copts, bchecks, bld, cbeh, escaped, hpc, hres, cache, hret, hcalls>>

\* ccs, err := compile(circuit, builder)
EnterCompile ==
    /\ UNCHANGED idleInCompile
    /\ cpc = "opts" /\ cidx > Len(copts)
    /\ cpc' = "visit"
    /\ cidx' = 1
    /\ UNCHANGED <<circ, copts, bchecks, copt, bld, cbeh, clog, cres, escaped,
                   hpc, hres, cache, hret, hcalls>>

\* parser.Visit calls the handler on the next leaf
VisitLeaf ==
    /\ UNCHANGED idleInCompile
    /\ cpc = "visit" /\ cidx <= Len(circ.leaves)
    /\ LET h == Handler(circ.leaves[cidx]) IN
         IF h.err # NoErr
           THEN /\ cres' = Returns(NilCcs, Wrap(h.err))
                /\ cpc' = "done"
                /\ UNCHANGED <<cidx, bld, clog>>
           ELSE /\ bld' = Allocate(bld, h.call, cidx)
                /\ clog' = IF h.call = "none" THEN clog ELSE Append(clog, Logged(h.call, cidx))
                /\ cidx' = cidx + 1
                /\ UNCHANGED <<cpc, cres>>
    /\ UNCHANGED <<circ, copts, bchecks, copt, cbeh, escaped, hpc, hres, cache, hret, hcalls>>

\* Visit returned nil: the recover is deferred and Define is called
CallDefine ==
    /\ UNCHANGED idleInCompile
    /\ cpc = "visit" /\ cidx > Len(circ.leaves)
    /\ cpc' = "define"
    /\ cidx' = 1
    /\ cbeh' \in Behaviours(circ)
    /\ clog' = Append(clog, Logged("Define", 0))
    /\ UNCHANGED <<circ, copts, bchecks, copt, bld, cres, escaped, hpc, hres, cache, hret, hcalls>>

\* a panic: recovered by the deferred function when it is installed
Raise(value) ==
    IF DeferActive(cpc)
      THEN /\ cres' = Returns(NilCcs, Wrap(Recovered(value)))
           /\ cpc' = "done"
           /\ UNCHANGED escaped
      ELSE /\ escaped' = TRUE
           /\ cpc' = "crashed"
           /\ UNCHANGED cres

\* Define calls a builder operation
DefineStep ==
    /\ UNCHANGED idleInCompile
    /\ cpc = "define" /\ cidx <= Len(circ.prog)
    /\ LET call == circ.prog[cbeh.order[cidx]] IN
         IF call.op = "panic"
           THEN /\ Raise("div by constant(0)")
                /\ UNCHANGED <<cidx, bld>>
           ELSE /\ bld' = [bld EXCEPT !.constraints = Append(@, call.leaf)]
                /\ cidx' = cidx + 1
                /\ UNCHANGED <<cpc, cres, escaped>>
    /\ UNCHANGED <<circ, copts, bchecks, copt, cbeh, clog, hpc, hres, cache, hret, hcalls>>

\* Define ends: it returns nil or an error, or faults
DefineEnd ==
    /\ UNCHANGED idleInCompile
    /\ cpc = "define" /\ cidx > Len(circ.prog)
    /\ CASE cbeh.end = "nil" ->
              /\ cpc' = "bcompile"
              /\ UNCHANGED <<cres, escaped>>
         [] cbeh.end = "err" ->
              /\ cres' = Returns(NilCcs, Wrap(<<"define circuit", "err">>))
              /\ cpc' = "done"
              /\ UNCHANGED escaped
         [] OTHER -> Raise("runtime error")
    /\ UNCHANGED <<circ, copts, bchecks, cidx, copt, bld, cbeh, clog, hpc, hres, cache, hret, hcalls>>

\* ccs, err = builder.Compile()
CallBuilderCompile ==
    /\ UNCHANGED idleInCompile
    /\ cpc = "bcompile"
    /\ clog' = Append(clog, Logged("builder.Compile", 0))
    /\ LET r == BuilderCompile(bld) IN
         cres' = IF r.err # NoErr
                   THEN Returns(NilCcs, Wrap(<<"compile system">> \o r.err))
                   ELSE Returns(r.ccs, NoErr)
    /\ cpc' = "done"
    /\ UNCHANGED <<circ, copts, bchecks, cidx, copt, bld, cbeh, escaped, hpc, hres, cache, hret, hcalls>>

\* ---- Assert.compile -----------------------------------------------------
HelperCall ==
    /\ UNCHANGED idleInCompile
    /\ hpc = "idle" /\ hcalls < MaxHelperCalls
    /\ hpc' = "lookup"
    /\ hcalls' = hcalls + 1
    /\ hret' = NoHelperReturn
    /\ UNCHANGED <<circ, copts, bchecks, runVars, hres, cache>>

\* if ccs, ok := assert.compiled[key]; ok { return ccs, nil }
HelperLookup ==
    /\ UNCHANGED idleInCompile
    /\ hpc = "lookup"
    /\ IF ~cache.isNil
         THEN /\ hret' = [ccs |-> cache, err |-> NoErr, from |-> "cache"]
              /\ hpc' = "idle"
              /\ UNCHANGED <<runVars, hres>>
         ELSE /\ hpc' = "first"
              /\ hres' = <<>>
              /\ StartRun
              /\ UNCHANGED hret
    /\ UNCHANGED <<circ, copts, bchecks, cache, hcalls>>

\* ccs, err := frontend.Compile(...); if err != nil { return nil, err }
HelperFirstDone ==
    /\ UNCHANGED idleInCompile
    /\ hpc = "first" /\ cpc = "done"
    /\ hres' = <<[res |-> cres, log |-> clog, built |-> bld.constraints]>>
    /\ IF cres.err # NoErr
         THEN /\ hret' = [ccs |-> NilCcs, err |-> cres.err, from |-> "compile"]
              /\ hpc' = "idle"
              /\ cpc' = "idle"
              /\ UNCHANGED <<cidx, copt, bld, cbeh, clog, cres, escaped>>
         ELSE /\ hpc' = "second"
              /\ StartRun
              /\ UNCHANGED hret
    /\ UNCHANGED <<circ, copts, bchecks, cache, hcalls>>

\* _ccs, err := frontend.Compile(...); the comparison; the cache
HelperSecondDone ==
    /\ UNCHANGED idleInCompile
    /\ hpc = "second" /\ cpc = "done"
    /\ hres' = Append(hres, [res |-> cres, log |-> clog, built |-> bld.constraints])
    /\ LET t == CompileTail(hres[1].res.ccs, cres) IN
         /\ hret' = [ccs |-> t.ccs, err |-> t.err, from |-> "compile"]
         /\ cache' = IF t.store THEN t.ccs ELSE cache
    /\ hpc' = "idle"
    /\ cpc' = "idle"
    /\ UNCHANGED <<circ, copts, bchecks, cidx, copt, bld, cbeh, clog, cres, escaped, hcalls>>

CompileNext ==
    \/ ApplyOption
    \/ EnterCompile
    \/ VisitLeaf
    \/ CallDefine
    \/ DefineStep
    \/ DefineEnd
    \/ CallBuilderCompile
    \/ HelperCall
    \/ HelperLookup
    \/ HelperFirstDone
    \/ HelperSecondDone

(***************************************************************************)
(*                       Properties of Compile                             *)
(***************************************************************************)
InLog(call) == \E i \in DOMAIN clog : clog[i].call = call

\* the run ended in a panic: at a builder operation called by Define, or by
\* a fault of Define itself
PanickedInCall == InLog("Define") /\ ~InLog("builder.Compile")
                  /\ cidx <= Len(circ.prog) /\ circ.prog[cbeh.order[cidx]].op = "panic"

PanickedInDefine == InLog("Define") /\ ~InLog("builder.Compile")
                    /\ cidx > Len(circ.prog) /\ cbeh.end = "fault"

\* C4: a panic raised while Define runs, by a builder operation or by Define
\* itself, never leaves Compile: Compile returns a nil constraint system and
\* an error that carries the panic value and the stack trace.
C4_PanicRecovered ==
    /\ ~escaped
    /\ cpc # "crashed"
    /\ (cpc = "done" /\ PanickedInCall) =>
          cres = Returns(NilCcs, <<"compile", "panic", "div by constant(0)", "stack">>)
    /\ (cpc = "done" /\ PanickedInDefine) =>
          cres = Returns(NilCcs, <<"compile", "panic", "runtime error", "stack">>)

C4_Witness ==
    /\ cpc = "done"
    /\ PanickedInCall
    /\ cidx = 2
    /\ cres.err = <<"compile", "panic", "div by constant(0)", "stack">>

BadLeaf(l) == ~l.settable \/ l.visibility = "Unset"

ExpectedCall(l) == IF l.visibility = "Public" THEN "NewPublicVariable" ELSE "NewSecretVariable"

\* C5: the steps of Compile run in a fixed order and stop at the first
\* failure: Define is called only after every option was applied and every
\* leaf was populated by the allocation its tag asks for; builder.Compile is
\* called only after Define returned nil; after a failing option, a leaf that
\* cannot be set or has no visibility, or a failed Define, no later step is
\* called and Compile returns nil and an error.
C5_StepOrder ==
    LET failingOpt == \E k \in DOMAIN copts : copts[k] = "Failing"
        badLeaf    == \E j \in DOMAIN circ.leaves : BadLeaf(circ.leaves[j])
        defs       == {i \in DOMAIN clog : clog[i].call = "Define"}
        bcs        == {i \in DOMAIN clog : clog[i].call = "builder.Compile"}
        allocs     == {i \in DOMAIN clog : clog[i].call \in {"NewPublicVariable", "NewSecretVariable"}}
        definedNil == cbeh.end = "nil" /\ \A i \in DOMAIN circ.prog : circ.prog[i].op # "panic"
    IN
    /\ \A d \in defs :
         /\ ~failingOpt /\ ~badLeaf
         /\ \A k \in DOMAIN copts : \E i \in 1..(d-1) : clog[i] = Logged("option", k)
         /\ \A j \in DOMAIN circ.leaves :
               \E i \in 1..(d-1) : clog[i] = Logged(ExpectedCall(circ.leaves[j]), j)
    /\ \A b \in bcs : definedNil /\ \E d \in defs : d < b
    /\ \A a \in allocs :
         /\ ~failingOpt
         /\ \A j \in 1..(clog[a].arg - 1) : ~BadLeaf(circ.leaves[j])
         /\ \A k \in DOMAIN copts : \E i \in 1..(a-1) : clog[i] = Logged("option", k)
    /\ Cardinality(defs) <= 1 /\ Cardinality(bcs) <= 1
    /\ (cpc = "done" /\ (failingOpt \/ badLeaf \/ (defs # {} /\ ~definedNil))) =>
          /\ cres.returned /\ cres.ccs = NilCcs /\ cres.err # NoErr
          /\ bcs = {}
    /\ (cpc = "done" /\ ~cres.ccs.isNil) => cres.err = NoErr /\ bcs # {}

C5_Witness ==
    /\ cpc = "done"
    /\ ~cres.ccs.isNil
    /\ circ.leaves = << [settable |-> TRUE, visibility |-> "Public"],
                        [settable |-> TRUE, visibility |-> "Secret"] >>
    /\ clog = << Logged("option", 1), Logged("NewPublicVariable", 1),
                 Logged("NewSecretVariable", 2), Logged("Define", 0),
                 Logged("builder.Compile", 0) >>

\* C6: a circuit with an input that no constraint references is rejected
\* exactly when the ignoreUnconstrainedInputs option is not set.
C6_UnconstrainedRejected ==
    (cpc = "done" /\ InLog("builder.Compile") /\ Unconstrained(bld)) =>
        ((cres.err # NoErr) <=> ~copt.ignoreUnconstrainedInputs)

Modulus == 5

MaxOps == 2
MaxConst == 2

Fp == 0..(Modulus - 1)

\* compiled.Term: a coefficient on a wire; the wire is (visibility, id)
Term(c, vis, id) == [coeff |-> c, vis |-> vis, vID |-> id]

IsOneWire(t) == t.vis = "public" /\ t.vID = 0

\* the operands of the API are interface{}: a Variable or a number
Var(v) == [kind |-> "var", v |-> v, n |-> 0]

Raw(n) == [kind |-> "const", v |-> [LinExp |-> <<>>, IsBoolean |-> 0], n |-> n]

\* cs.one(): the ONE wire. Marker 0 is a marker no other Variable holds.
one == [LinExp |-> <<Term(1, "public", 0)>>, IsBoolean |-> 0]

\* cs.constant(input)
constant(input) ==
    IF input.kind = "var"
      THEN input.v
      ELSE IF input.n = 1
             THEN one
             ELSE [one EXCEPT !.LinExp = <<Term(input.n, "public", 0)>>]

\* cs.toVariables(in...)
toVariables(in) == [i \in DOMAIN in |-> constant(in[i])]

\* compiled.Variable.IsConstant: a single term, on the ONE wire
IsConstant(v) == Len(v.LinExp) = 1 /\ IsOneWire(v.LinExp[1])

\* cs.constantValue(v)
constantValue(v) == v.LinExp[1].coeff

\* the value of *v.IsBoolean
IsMarked(cs, v) == v.IsBoolean # 0 /\ cs.Bool[v.IsBoolean]

\* what an operation returns: the builder after it, its result, its panic
Ok(cs, res) == [cs |-> cs, res |-> res, panic |-> ""]

Panic(cs, msg) == [cs |-> cs, res |-> one, panic |-> msg]

\* t := false; &t
NewMarker(cs) == [cs EXCEPT !.Bool = Append(@, FALSE)]

\* cs.newInternalVariable()
newInternalVariable(cs) ==
    Ok([cs EXCEPT !.NbInternal = @ + 1, !.Bool = Append(@, FALSE)],
       [LinExp |-> <<Term(1, "internal", cs.NbInternal)>>, IsBoolean |-> Len(cs.Bool) + 1])

\* cs.NewPublicVariable / cs.NewSecretVariable
newInput(cs, vis, id) ==
    Ok(NewMarker(cs), [LinExp |-> <<Term(1, vis, id)>>, IsBoolean |-> Len(cs.Bool) + 1])

\* cs.NewHint(f, inputs): an internal wire the solver computes
NewHint(cs, f, a) ==
    LET r == newInternalVariable(cs) IN
    Ok([r.cs EXCEPT !.Hints = Append(@, [f |-> f, wire |-> cs.NbInternal, input |-> a.LinExp])],
       r.res)

newR1C(l, r, o) == [L |-> l.LinExp, R |-> r.LinExp, O |-> o.LinExp]

\* cs.addConstraint(r1c, debug) and append(cs.Constraints, r1c)
addConstraint(cs, r1c) == [cs EXCEPT !.Constraints = Append(@, r1c)]

\* the order of the terms of a reduced linear expression
WireKey(t) ==
    (CASE t.vis = "public" -> 0 [] t.vis = "secret" -> 1 [] OTHER -> 2) * 100 + t.vID

RECURSIVE SortKeys(_)
SortKeys(S) ==
    IF S = {} THEN <<>>
    ELSE LET m == CHOOSE x \in S : \A y \in S : x <= y
         IN <<m>> \o SortKeys(S \ {m})

RECURSIVE SumCoeff(_, _, _)
SumCoeff(l, i, k) ==
    IF i > Len(l) THEN 0
    ELSE (IF WireKey(l[i]) = k THEN l[i].coeff ELSE 0) + SumCoeff(l, i + 1, k)

\* cs.reduce(l): one term per wire, sorted, no term with coefficient zero
reduce(v) ==
    LET l      == v.LinExp
        keys   == SortKeys({WireKey(l[i]) : i \in DOMAIN l})
        wire(k) == CHOOSE i \in DOMAIN l : WireKey(l[i]) = k
        merged == [j \in DOMAIN keys |->
                     [l[wire(keys[j])] EXCEPT !.coeff = SumCoeff(l, 1, keys[j]) % Modulus]]
    IN [v EXCEPT !.LinExp = SelectSeq(merged, LAMBDA t : t.coeff # 0)]

\* cs.negateLinExp(l)
negateLinExp(l) == [i \in DOMAIN l |-> [l[i] EXCEPT !.coeff = 0 - @]]

\* c.ModInverse(c, modulus)
ModInverse(c) ==
    IF c % Modulus = 0 THEN 0 ELSE CHOOSE x \in Fp : (x * c) % Modulus = 1

\* Add returns res = i1+i2
Add(cs, i1, i2) ==
    LET vs  == toVariables(<<i1, i2>>)
        cs1 == NewMarker(cs)
        res == reduce([LinExp |-> vs[1].LinExp \o vs[2].LinExp, IsBoolean |-> Len(cs.Bool) + 1])
    IN IF cs.BackendID = "PLONK"
         THEN IF Len(res.LinExp) = 1
                THEN Ok(cs1, res)
                ELSE LET r == newInternalVariable(cs1)
                     IN Ok(addConstraint(r.cs, newR1C(one, res, r.res)), r.res)
         ELSE Ok(cs1, res)

\* Neg returns -i
Neg(cs, i) ==
    LET vs == toVariables(<<i>>) IN
    IF IsConstant(vs[1])
      THEN Ok(cs, constant(Raw(0 - constantValue(vs[1]))))
      ELSE Ok(cs, [LinExp |-> negateLinExp(vs[1].LinExp), IsBoolean |-> vs[1].IsBoolean])

\* Sub returns res = i1 - i2
Sub(cs, i1, i2) ==
    LET vs  == toVariables(<<i1, i2>>)
        cs1 == NewMarker(cs)
        res == reduce([LinExp |-> vs[1].LinExp \o negateLinExp(vs[2].LinExp),
                       IsBoolean |-> Len(cs.Bool) + 1])
    IN IF cs.BackendID = "PLONK"
         THEN IF Len(res.LinExp) = 1
                THEN Ok(cs1, res)
                ELSE LET r == newInternalVariable(cs1)
                     IN Ok(addConstraint(r.cs, newR1C(one, res, r.res)), r.res)
         ELSE Ok(cs1, res)

\* multiplying by a constant without updating the coefficients
mulConstantUnscaled(cs, v1, c) ==
    Ok(NewMarker(cs), [LinExp |-> v1.LinExp, IsBoolean |-> Len(cs.Bool) + 1])

\* multiplying a Variable by a constant: the coefficients are updated
mulConstant(cs, v1, c) ==
    LET lambda == constantValue(c) IN
    Ok(NewMarker(cs),
       [LinExp |-> [i \in DOMAIN v1.LinExp |-> [v1.LinExp[i] EXCEPT !.coeff = @ * lambda]],
        IsBoolean |-> Len(cs.Bool) + 1])

\* Mul returns res = i1 * i2
Mul(cs, i1, i2) ==
    LET vs == toVariables(<<i1, i2>>)
        v1 == vs[1]
        v2 == vs[2]
    IN IF ~IsConstant(v1) /\ ~IsConstant(v2)
         THEN LET r == newInternalVariable(cs)
              IN Ok(addConstraint(r.cs, newR1C(v1, v2, r.res)), r.res)
         ELSE IF IsConstant(v1) /\ IsConstant(v2)
                THEN Ok(cs, constant(Raw((constantValue(v1) * constantValue(v2)) % Modulus)))
                ELSE IF IsConstant(v1) THEN mulConstant(cs, v2, v1) ELSE mulConstant(cs, v1, v2)

\* Inverse that allocates its result before it looks at the operand
InverseAllocatesFirst(cs, i1) ==
    LET vs == toVariables(<<i1>>)
        r  == newInternalVariable(cs)
    IN IF IsConstant(vs[1])
         THEN IF constantValue(vs[1]) = 0
                THEN Panic(r.cs, "inverse by constant(0)")
                ELSE Ok(r.cs, constant(Raw(ModInverse(constantValue(vs[1])))))
         ELSE Ok(addConstraint(r.cs, newR1C(r.res, vs[1], one)), r.res)

\* Inverse whose constraint is res * v == res
InverseOfResult(cs, i1) ==
    LET vs == toVariables(<<i1>>) IN
    IF IsConstant(vs[1])
      THEN IF constantValue(vs[1]) = 0
             THEN Panic(cs, "inverse by constant(0)")
             ELSE Ok(cs, constant(Raw(ModInverse(constantValue(vs[1])))))
      ELSE LET r == newInternalVariable(cs)
           IN Ok(addConstraint(r.cs, newR1C(r.res, vs[1], r.res)), r.res)

\* Inverse returns res = inverse(v)
Inverse(cs, i1) ==
    LET vs == toVariables(<<i1>>) IN
    IF IsConstant(vs[1])
      THEN IF constantValue(vs[1]) = 0
             THEN Panic(cs, "inverse by constant(0)")
             ELSE Ok(cs, constant(Raw(ModInverse(constantValue(vs[1])))))
      ELSE LET r == newInternalVariable(cs)
           IN Ok(addConstraint(r.cs, newR1C(r.res, vs[1], one)), r.res)

\* AssertIsBoolean: a constant must be 0 or 1; a Variable already marked is
\* left alone; otherwise v * (1 - v) == 0 is emitted and the marker is set
AssertIsBoolean(cs, i1) ==
    LET v == constant(i1) IN
    IF IsConstant(v)
      THEN IF constantValue(v) \in {0, 1}
             THEN Ok(cs, v)
             ELSE Panic(cs, "assertIsBoolean failed")
      ELSE IF IsMarked(cs, v)
             THEN Ok(cs, v)
             ELSE LET nv == reduce([LinExp |-> one.LinExp \o negateLinExp(v.LinExp), IsBoolean |-> 0])
                      c1 == addConstraint(cs, newR1C(v, nv, constant(Raw(0))))
                  IN Ok([c1 EXCEPT !.Bool[v.IsBoolean] = TRUE], v)


\* IsZero without the constraint that m + a is invertible
IsZeroNoInverse(cs, i1) ==
    LET a == toVariables(<<i1>>)[1] IN
    IF IsConstant(a)
      THEN IF constantValue(a) = 0 THEN Ok(cs, constant(Raw(1))) ELSE Ok(cs, constant(Raw(0)))
      ELSE LET h  == NewHint(cs, "IsZero", a)
               m  == h.res
               c1 == addConstraint(h.cs, newR1C(a, m, constant(Raw(0))))
               ab == AssertIsBoolean(c1, Var(m))
           IN Ok(ab.cs, m)

\* IsZero returns 1 if i1 is zero, 0 otherwise
IsZero(cs, i1) ==
    LET a == toVariables(<<i1>>)[1] IN
    IF IsConstant(a)
      THEN IF constantValue(a) = 0 THEN Ok(cs, constant(Raw(1))) ELSE Ok(cs, constant(Raw(0)))
      ELSE LET h   == NewHint(cs, "IsZero", a)
               m   == h.res
               c1  == addConstraint(h.cs, newR1C(a, m, constant(Raw(0))))
               ab  == AssertIsBoolean(c1, Var(m))
               ma  == Add(ab.cs, Var(m), Var(a))
               inv == Inverse(ma.cs, Var(ma.res))
           IN Ok(inv.cs, m)

\* Select whose general path adds i1 instead of i2 to b * (i1 - i2)
SelectWrongBase(cs, i0, i1, i2) ==
    LET vs == toVariables(<<i0, i1, i2>>)
        b  == vs[1]
        ab == AssertIsBoolean(cs, Var(b))
    IN IF ab.panic # ""
         THEN ab
         ELSE IF IsConstant(vs[2]) /\ IsConstant(vs[3])
                THEN LET diff == constantValue(vs[2]) - constantValue(vs[3])
                         res  == Mul(ab.cs, Var(b), Raw(diff))
                     IN Add(res.cs, Var(res.res), Var(vs[3]))
                ELSE IF IsConstant(vs[2]) /\ constantValue(vs[2]) = 0
                       THEN LET v == Sub(ab.cs, Raw(1), Var(vs[1]))
                            IN Mul(v.cs, Var(v.res), Var(vs[3]))
                       ELSE LET v == Sub(ab.cs, Var(vs[2]), Var(vs[3]))
                                w == Mul(v.cs, Var(b), Var(v.res))
                            IN Add(w.cs, Var(w.res), Var(vs[2]))

\* Select if i0 is true, yields i1 else yields i2
Select(cs, i0, i1, i2) ==
    LET vs == toVariables(<<i0, i1, i2>>)
        b  == vs[1]
        ab == AssertIsBoolean(cs, Var(b))
    IN IF ab.panic # ""
         THEN ab
         ELSE IF IsConstant(vs[2]) /\ IsConstant(vs[3])
                THEN LET diff == constantValue(vs[2]) - constantValue(vs[3])
                         res  == Mul(ab.cs, Var(b), Raw(diff))
                     IN Add(res.cs, Var(res.res), Var(vs[3]))
                ELSE IF IsConstant(vs[2]) /\ constantValue(vs[2]) = 0
                       THEN LET v == Sub(ab.cs, Raw(1), Var(vs[1]))
                            IN Mul(v.cs, Var(v.res), Var(vs[3]))
                       ELSE LET v == Sub(ab.cs, Var(vs[2]), Var(vs[3]))
                                w == Mul(v.cs, Var(b), Var(v.res))
                            IN Add(w.cs, Var(w.res), Var(vs[3]))

\* ---- the meaning of linear expressions and constraints ----------------
Wire(t) == <<t.vis, t.vID>>

Wires(l) == {Wire(l[i]) : i \in {j \in DOMAIN l : ~IsOneWire(l[j])}}

RECURSIVE EvalFrom(_, _, _)
EvalFrom(l, i, A) ==
    IF i > Len(l) THEN 0
    ELSE l[i].coeff * (IF IsOneWire(l[i]) THEN 1 ELSE A[Wire(l[i])]) + EvalFrom(l, i + 1, A)

\* the value of a linear expression under an assignment of its wires
Eval(l, A) == EvalFrom(l, 1, A) % Modulus

\* <L> * <R> = <O>
Holds(c, A) == (Eval(c.L, A) * Eval(c.R, A)) % Modulus = Eval(c.O, A)

\* the assignments that extend A to the wires of constraints i.. and satisfy them
RECURSIVE SatExt(_, _, _)
SatExt(cons, i, A) ==
    IF i > Len(cons) THEN {A}
    ELSE LET new  == (Wires(cons[i].L) \cup Wires(cons[i].R) \cup Wires(cons[i].O)) \ DOMAIN A
             exts == {A @@ f : f \in [new -> Fp]}
         IN UNION {SatExt(cons, i + 1, B) : B \in {E \in exts : Holds(cons[i], E)}}

\* ---- initial state ------------------------------------------------------
EmptyBuilder(backend) ==
    [BackendID |-> backend, Constraints |-> <<>>, NbInternal |-> 0, Hints |-> <<>>, Bool |-> <<>>]

\* the call before the last one: what it was and what it returned
NoPrev == [op |-> "none", args |-> <<>>, outs |-> <<>>, nbConstraints |-> 0]

NoCall(cs) ==
    [op |-> "none", args |-> <<>>, res |-> one, outs |-> <<>>, before |-> cs, panic |-> "",
     prev |-> NoPrev]

\* a builder with one public input X and one secret input Y
BuilderInit ==
    \E backend \in {"GROTH16", "PLONK"} :
        LET x == newInput(EmptyBuilder(backend), "public", 1)
            y == newInput(x.cs, "secret", 0)
        IN /\ r1cs = y.cs
           /\ pool = <<x.res, y.res>>
           /\ last = NoCall(y.cs)
           /\ nops = 0

\* ---- the API calls of Define -------------------------------------------
Operands == {Var(pool[i]) : i \in DOMAIN pool} \cup {Raw(n) : n \in 0..MaxConst}

\* calls are made on the builder Compile created, until one of them panics
CanCall == nops < MaxOps /\ last.panic = "" /\ pool # <<>>

PrevOf(l) ==
    [op |-> l.op, args |-> l.args, outs |-> l.outs, nbConstraints |-> Len(l.before.Constraints)]

\* a call that returns the Variables outs (res is the first of them)
CalledAll(op, args, r, outs) ==
    /\ r1cs' = r.cs
    /\ pool' = IF r.panic = "" THEN pool \o outs ELSE pool
    /\ last' = [op |-> op, args |-> args, res |-> r.res, outs |-> outs, before |-> r1cs,
                panic |-> r.panic, prev |-> PrevOf(last)]
    /\ nops' = nops + 1

Called(op, args, r) == CalledAll(op, args, r, <<r.res>>)

ApiAdd ==
    /\ UNCHANGED idleInBuilder
    /\ CanCall
    /\ \E i1, i2 \in Operands : Called("Add", <<i1, i2>>, Add(r1cs, i1, i2))

ApiSub ==
    /\ UNCHANGED idleInBuilder
    /\ CanCall
    /\ \E i1, i2 \in Operands : Called("Sub", <<i1, i2>>, Sub(r1cs, i1, i2))

ApiMul ==
    /\ UNCHANGED idleInBuilder
    /\ CanCall
    /\ \E i1, i2 \in Operands : Called("Mul", <<i1, i2>>, Mul(r1cs, i1, i2))

ApiNeg ==
    /\ UNCHANGED idleInBuilder
    /\ CanCall
    /\ \E i \in Operands : Called("Neg", <<i>>, Neg(r1cs, i))

ApiInverse ==
    /\ UNCHANGED idleInBuilder
    /\ CanCall
    /\ \E i \in Operands : Called("Inverse", <<i>>, Inverse(r1cs, i))

ApiIsZero ==
    /\ UNCHANGED idleInBuilder
    /\ CanCall
    /\ \E i \in Operands : Called("IsZero", <<i>>, IsZero(r1cs, i))

ApiSelect ==
    /\ UNCHANGED idleInBuilder
    /\ CanCall
    /\ \E i0, i1, i2 \in Operands : Called("Select", <<i0, i1, i2>>, Select(r1cs, i0, i1, i2))

BuilderNext ==
    \/ ApiAdd
    \/ ApiSub
    \/ ApiMul
    \/ ApiNeg
    \/ ApiInverse
    \/ ApiIsZero
    \/ ApiSelect

(***************************************************************************)
(*                       Properties of the builder                         *)
(***************************************************************************)
\* the constraints and the internal wires the last call added
NewConstraints ==
    SubSeq(r1cs.Constraints, Len(last.before.Constraints) + 1, Len(r1cs.Constraints))

\* C9: on a non-constant a, the constraints IsZero(a) emits have, for every
\* value of a, exactly one satisfying value of the result m: 1 when a = 0 and
\* 0 otherwise; on a constant a, IsZero returns the constant 1 when a = 0 and
\* the constant 0 otherwise and emits nothing.
C9_IsZero ==
    (last.op = "IsZero") =>
        LET a == constant(last.args[1])
            m == last.res
        IN /\ last.panic = ""
           /\ IF IsConstant(a)
                THEN /\ NewConstraints = <<>>
                     /\ r1cs.NbInternal = last.before.NbInternal
                     /\ IsConstant(m)
                     /\ constantValue(m) = (IF constantValue(a) % Modulus = 0 THEN 1 ELSE 0)
                ELSE /\ m.LinExp = <<Term(1, "internal", last.before.NbInternal)>>
                     /\ \A A \in [Wires(a.LinExp) -> Fp] :
                           {Eval(m.LinExp, B) : B \in SatExt(NewConstraints, 1, A)}
                             = {IF Eval(a.LinExp, A) = 0 THEN 1 ELSE 0}

C9_Witness ==
    /\ last.op = "IsZero"
    /\ ~IsConstant(constant(last.args[1]))
    /\ Len(constant(last.args[1]).LinExp) = 2
    /\ Len(NewConstraints) >= 3

\* C10: Select(s, a, b) asserts that s is boolean, and for every value of a
\* and b and every s in {0, 1} the constraints it emits are satisfiable and
\* give its result the value of a when s = 1 and of b when s = 0, on each of
\* its three paths.
C10_Select ==
    (last.op = "Select") =>
        LET s   == constant(last.args[1])
            a   == constant(last.args[2])
            b   == constant(last.args[3])
            W   == Wires(s.LinExp) \cup Wires(a.LinExp) \cup Wires(b.LinExp)
        IN /\ IF IsConstant(s)
                THEN (last.panic # "") <=> (constantValue(s) \notin {0, 1})
                ELSE /\ last.panic = ""
                     /\ IsMarked(r1cs, s)
                     /\ \/ IsMarked(last.before, s)
                        \/ \A A \in [W -> Fp] :
                              Eval(s.LinExp, A) \notin {0, 1} => SatExt(NewConstraints, 1, A) = {}
           /\ (last.panic = "") =>
                 \A A \in [W -> Fp] :
                    Eval(s.LinExp, A) \in {0, 1} =>
                       LET S == SatExt(NewConstraints, 1, A) IN
                       /\ S # {}
                       /\ \A B \in S :
                             Eval(last.res.LinExp, B)
                               = (IF Eval(s.LinExp, A) = 1 THEN Eval(a.LinExp, A)
                                                           ELSE Eval(b.LinExp, A))

C10_Witness ==
    /\ last.op = "Select"
    /\ last.panic = ""
    /\ ~IsConstant(constant(last.args[1]))
    /\ ~IsConstant(constant(last.args[2]))
    /\ ~IsConstant(constant(last.args[3]))
    /\ Cardinality(Wires(constant(last.args[1]).LinExp) \cup Wires(constant(last.args[2]).LinExp)
                   \cup Wires(constant(last.args[3]).LinExp)) = 3
    /\ ~IsMarked(last.before, constant(last.args[1]))


(***************************************************************************)
(*                     Lookup2 on the R1CS builder                         *)
(***************************************************************************)
RECURSIVE ConcatLinExp(_, _)
ConcatLinExp(vs, i) ==
    IF i > Len(vs) THEN <<>> ELSE vs[i].LinExp \o ConcatLinExp(vs, i + 1)

RECURSIVE ConcatNegated(_, _)
ConcatNegated(vs, i) ==
    IF i > Len(vs) THEN <<>> ELSE negateLinExp(vs[i].LinExp) \o ConcatNegated(vs, i + 1)

\* Add with its variadic operands: res = i1+i2+...in
AddAll(cs, in) ==
    LET vs  == toVariables(in)
        cs1 == NewMarker(cs)
        res == reduce([LinExp |-> ConcatLinExp(vs, 1), IsBoolean |-> Len(cs.Bool) + 1])
    IN IF cs.BackendID = "PLONK"
         THEN IF Len(res.LinExp) = 1
                THEN Ok(cs1, res)
                ELSE LET r == newInternalVariable(cs1)
                     IN Ok(addConstraint(r.cs, newR1C(one, res, r.res)), r.res)
         ELSE Ok(cs1, res)

\* Sub with its variadic operands: res = i1 - i2 - ... - in
SubAll(cs, in) ==
    LET vs  == toVariables(in)
        cs1 == NewMarker(cs)
        res == reduce([LinExp |-> vs[1].LinExp \o ConcatNegated(vs, 2),
                       IsBoolean |-> Len(cs.Bool) + 1])
    IN IF cs.BackendID = "PLONK"
         THEN IF Len(res.LinExp) = 1
                THEN Ok(cs1, res)
                ELSE LET r == newInternalVariable(cs1)
                     IN Ok(addConstraint(r.cs, newR1C(one, res, r.res)), r.res)
         ELSE Ok(cs1, res)

\* Lookup2 whose last sum leaves out in0
Lookup2NoBase(cs, b0, b1, i0, i1, i2, i3) ==
    LET vs  == toVariables(<<b0, b1, i0, i1, i2, i3>>)
        s0  == vs[1]
        s1  == vs[2]
        in0 == vs[3]
        in1 == vs[4]
        in2 == vs[5]
        in3 == vs[6]
        a0  == AssertIsBoolean(cs, Var(s0))
        a1  == AssertIsBoolean(a0.cs, Var(s1))
        t1  == Add(a1.cs, Var(in3), Var(in0))
        t2  == SubAll(t1.cs, <<Var(t1.res), Var(in2), Var(in1)>>)
        t3  == Mul(t2.cs, Var(t2.res), Var(s1))
        t4  == Add(t3.cs, Var(t3.res), Var(in1))
        t5  == Sub(t4.cs, Var(t4.res), Var(in0))
        tmp2 == Mul(t5.cs, Var(t5.res), Var(s0))
        r1  == Sub(tmp2.cs, Var(in2), Var(in0))
        r2  == Mul(r1.cs, Var(r1.res), Var(s1))
    IN IF a0.panic # "" THEN a0
       ELSE IF a1.panic # "" THEN a1
       ELSE AddAll(r2.cs, <<Var(r2.res), Var(tmp2.res)>>)

\* Lookup2 performs a 2-bit lookup between i0, i1, i2, i3 based on bits b0, b1
Lookup2(cs, b0, b1, i0, i1, i2, i3) ==
    LET vs  == toVariables(<<b0, b1, i0, i1, i2, i3>>)
        s0  == vs[1]
        s1  == vs[2]
        in0 == vs[3]
        in1 == vs[4]
        in2 == vs[5]
        in3 == vs[6]
        a0  == AssertIsBoolean(cs, Var(s0))
        a1  == AssertIsBoolean(a0.cs, Var(s1))
        t1  == Add(a1.cs, Var(in3), Var(in0))
        t2  == SubAll(t1.cs, <<Var(t1.res), Var(in2), Var(in1)>>)
        t3  == Mul(t2.cs, Var(t2.res), Var(s1))
        t4  == Add(t3.cs, Var(t3.res), Var(in1))
        t5  == Sub(t4.cs, Var(t4.res), Var(in0))
        tmp2 == Mul(t5.cs, Var(t5.res), Var(s0))
        r1  == Sub(tmp2.cs, Var(in2), Var(in0))
        r2  == Mul(r1.cs, Var(r1.res), Var(s1))
    IN IF a0.panic # "" THEN a0
       ELSE IF a1.panic # "" THEN a1
       ELSE AddAll(r2.cs, <<Var(r2.res), Var(tmp2.res), Var(in0)>>)

\* a builder with the six inputs of one Lookup2 call: two selector bits and
\* four table entries
Lookup2Init ==
    \E backend \in {"GROTH16", "PLONK"} :
        LET b0 == newInput(EmptyBuilder(backend), "secret", 0)
            b1 == newInput(b0.cs, "secret", 1)
            i0 == newInput(b1.cs, "public", 1)
            i1 == newInput(i0.cs, "public", 2)
            i2 == newInput(i1.cs, "public", 3)
            i3 == newInput(i2.cs, "public", 4)
        IN /\ r1cs = i3.cs
           /\ pool = <<b0.res, b1.res, i0.res, i1.res, i2.res, i3.res>>
           /\ last = NoCall(i3.cs)
           /\ nops = 0

\* operand k of the call: its own input or a number; the second selector may
\* also be the first one
Lookup2Operands(k) ==
    {Var(pool[k])} \cup {Raw(n) : n \in 0..MaxConst}
      \cup (IF k = 2 THEN {Var(pool[1])} ELSE {})

ApiLookup2 ==
    /\ UNCHANGED idleInBuilder
    /\ nops = 0
    /\ Len(pool) = 6
    /\ \E b0 \in Lookup2Operands(1), b1 \in Lookup2Operands(2),
          i0 \in Lookup2Operands(3), i1 \in Lookup2Operands(4),
          i2 \in Lookup2Operands(5), i3 \in Lookup2Operands(6) :
          Called("Lookup2", <<b0, b1, i0, i1, i2, i3>>, Lookup2(r1cs, b0, b1, i0, i1, i2, i3))

Lookup2Next == ApiLookup2

\* the constraints of the last call that multiply two non-constant
\* expressions into a fresh wire (neither a boolean assertion nor the row
\* that names a sum)
MulConstraints ==
    {i \in DOMAIN NewConstraints :
        LET c == NewConstraints[i] IN
        /\ c.L # one.LinExp
        /\ Len(c.O) = 1 /\ c.O[1].vis = "internal" /\ c.O[1].coeff = 1
        /\ c.O[1].vID >= last.before.NbInternal}

\* C11: for selector bits b0, b1 in {0,1} and every value of i0..i3, the
\* constraints Lookup2 emits are satisfiable and give its result the value
\* of i0, i1, i2, i3 for (b0,b1) = (0,0), (1,0), (0,1), (1,1); when all six
\* operands are non-constant, exactly three multiplication constraints are
\* emitted besides the boolean assertions.
C11_Lookup2 ==
    (last.op = "Lookup2" /\ last.panic = "") =>
        LET vs == toVariables(last.args)
            WS == Wires(vs[1].LinExp) \cup Wires(vs[2].LinExp)
            WI == UNION {Wires(vs[k].LinExp) : k \in 3..6} \ WS
        IN /\ \A F \in [WS -> Fp] :
                LET v0 == Eval(vs[1].LinExp, F)
                    v1 == Eval(vs[2].LinExp, F)
                IN (v0 \in {0, 1} /\ v1 \in {0, 1}) =>
                      \A G \in [WI -> Fp] :
                         LET A == F @@ G
                             S == SatExt(NewConstraints, 1, A)
                         IN /\ S # {}
                            /\ \A B \in S :
                                  Eval(last.res.LinExp, B) = Eval(vs[3 + v0 + 2 * v1].LinExp, A)
           /\ (\A k \in 1..6 : ~IsConstant(vs[k])) =>
                 /\ Cardinality(MulConstraints) = 3
                 /\ r1cs.BackendID = "GROTH16" =>
                       Len(NewConstraints) = 3 + Cardinality({vs[1].IsBoolean, vs[2].IsBoolean})

C11_Witness ==
    /\ last.op = "Lookup2"
    /\ last.panic = ""
    /\ \A k \in 1..6 : ~IsConstant(toVariables(last.args)[k])
    /\ last.args[2] # last.args[1]
    /\ Cardinality(MulConstraints) = 3


(***************************************************************************)
(*                   ToBinary and FromBinary (R1CS)                        *)
(***************************************************************************)
MaxBits == 3

\* a nil interface{} operand
Nil == [kind |-> "nil", v |-> [LinExp |-> <<>>, IsBoolean |-> 0], n |-> 0]

\* what an operation with several results returns
OkAll(cs, outs) ==
    [cs |-> cs, res |-> IF outs = <<>> THEN one ELSE outs[1], outs |-> outs, panic |-> ""]

\* AssertIsEqual: two constants are compared; otherwise 1 * (i1 - i2) == 0
\* is emitted. An operand that is no Variable and no number cannot be
\* converted.
AssertIsEqual(cs, i1, i2) ==
    IF i1.kind = "nil" \/ i2.kind = "nil"
      THEN Panic(cs, "unsupported type")
      ELSE LET a == constant(i1)
               b == constant(i2)
           IN IF IsConstant(a) /\ IsConstant(b)
                THEN IF constantValue(a) = constantValue(b)
                       THEN Ok(cs, a)
                       ELSE Panic(cs, "i1, i2 should be equal")
                ELSE LET d == reduce([LinExp |-> a.LinExp \o negateLinExp(b.LinExp),
                                      IsBoolean |-> 0])
                     IN Ok(addConstraint(cs, newR1C(one, d, constant(Raw(0)))), a)

\* c.Bit(i)
Bit(c, i) == (c \div (2 ^ i)) % 2

\* v, then F of its value: the steps of an operation, one after the other
With(v, F(_)) == CHOOSE r \in {F(x) : x \in {v}} : TRUE

\* the loop of toBinary: bit i is a hint, sb[i] = 2^i * b[i], b[i] is boolean
RECURSIVE toBinaryLoop(_, _, _, _, _, _, _)
toBinaryLoop(cs, a, i, nbBits, unsafe, b, sb) ==
    IF i >= nbBits
      THEN [cs |-> cs, b |-> b, sb |-> sb]
      ELSE With(NewHint(cs, "IthBit", a), LAMBDA h :
           With(Mul(h.cs, Var(h.res), Raw(2 ^ i)), LAMBDA m :
           With(IF unsafe THEN m ELSE AssertIsBoolean(m.cs, Var(h.res)), LAMBDA ab :
           With(toBinaryLoop(ab.cs, a, i + 1, nbBits, unsafe, Append(b, h.res), Append(sb, m.res)),
                LAMBDA l : l))))

\* toBinary: the bits of a non-constant a
toBinary(cs, a, nbBits, unsafe) ==
    With(toBinaryLoop(cs, a, 0, nbBits, unsafe, <<>>, <<>>), LAMBDA l :
    IF nbBits = 1
      THEN With(AssertIsEqual(l.cs, Var(l.sb[1]), Var(a)), LAMBDA e1 :
           With(AssertIsEqual(e1.cs, Nil, Var(a)), LAMBDA e2 :
           IF e1.panic # "" THEN e1
           ELSE IF e2.panic # "" THEN e2 ELSE OkAll(e2.cs, l.b)))
      ELSE IF nbBits = 0
             THEN Panic(l.cs, "index out of range")
             ELSE With(IF nbBits = 2
                         THEN Add(l.cs, Var(l.sb[1]), Var(l.sb[2]))
                         ELSE AddAll(l.cs, [k \in DOMAIN l.sb |-> Var(l.sb[k])]), LAMBDA sum :
                  With(AssertIsEqual(sum.cs, Var(sum.res), Var(a)), LAMBDA e :
                  IF e.panic # "" THEN e ELSE OkAll(e.cs, l.b))))

\* ToBinary unpacks a Variable in binary, n is the number of bits
ToBinary(cs, i1, n) ==
    IF n < 0
      THEN Panic(cs, "invalid n")
      ELSE LET a == toVariables(<<i1>>)[1] IN
           IF IsConstant(a)
             THEN OkAll(cs, [k \in 1..n |-> constant(Raw(Bit(constantValue(a), k - 1)))])
             ELSE toBinary(cs, a, n, FALSE)

RECURSIVE FromBinaryLoop(_, _, _, _)
FromBinaryLoop(cs, b, i, res) ==
    IF i > Len(b)
      THEN Ok(cs, res)
      ELSE With(Mul(cs, Raw(2 ^ (i - 1)), Var(b[i])), LAMBDA v :
           With(Add(v.cs, Var(v.res), Var(res)), LAMBDA r :
           With(AssertIsBoolean(r.cs, Var(b[i])), LAMBDA ab :
           IF ab.panic # "" THEN ab
           ELSE With(FromBinaryLoop(ab.cs, b, i + 1, r.res), LAMBDA l : l))))

\* FromBinary packs b, seen as a field element in little endian
FromBinary(cs, in) == FromBinaryLoop(cs, toVariables(in), 1, constant(Raw(0)))

ApiToBinary ==
    /\ UNCHANGED idleInBuilder
    /\ CanCall
    /\ \E i1 \in Operands, n \in (0 - 1)..MaxBits :
          LET r == ToBinary(r1cs, i1, n) IN
          CalledAll("ToBinary", <<i1, [kind |-> "const", v |-> one, n |-> n]>>, r,
                    IF r.panic = "" THEN r.outs ELSE <<>>)

\* the operands of FromBinary: the bits the last ToBinary returned, or one
\* or two operands of the circuit
FromBinaryOperands ==
    {<<i1>> : i1 \in Operands} \cup {<<i1, i2>> : i1, i2 \in Operands}
      \cup (IF last.op = "ToBinary" /\ last.panic = ""
              THEN {[k \in DOMAIN last.outs |-> Var(last.outs[k])]}
              ELSE {})

ApiFromBinary ==
    /\ UNCHANGED idleInBuilder
    /\ CanCall
    /\ \E in \in FromBinaryOperands : Called("FromBinary", in, FromBinary(r1cs, in))

BitsNext ==
    \/ ApiAdd
    \/ ApiMul
    \/ ApiToBinary
    \/ ApiFromBinary

\* the constraints emitted by the last two calls
ConstraintsSincePrev ==
    SubSeq(r1cs.Constraints, last.prev.nbConstraints + 1, Len(r1cs.Constraints))

\* C12: for n >= 1, ToBinary(a, n) succeeds and its constraints are
\* satisfiable exactly for the values of a below 2^n, and the constraints of
\* FromBinary(ToBinary(a, n)) are satisfiable for those values and force the
\* result to equal a.
C12_BinaryRoundTrip ==
    /\ (last.op = "ToBinary" /\ last.args[2].n >= 1) =>
          LET a == constant(last.args[1])
              n == last.args[2].n
          IN /\ last.panic = ""
             /\ \A A \in [Wires(a.LinExp) -> Fp] :
                   (SatExt(NewConstraints, 1, A) # {}) <=> (Eval(a.LinExp, A) < 2 ^ n)
    /\ (last.op = "FromBinary" /\ last.prev.op = "ToBinary" /\ last.panic = ""
          /\ last.prev.outs # <<>>
          /\ last.args = [k \in DOMAIN last.prev.outs |-> Var(last.prev.outs[k])]) =>
          LET a == constant(last.prev.args[1])
              n == last.prev.args[2].n
          IN \A A \in [Wires(a.LinExp) -> Fp] :
                (Eval(a.LinExp, A) < 2 ^ n) =>
                   LET S == SatExt(ConstraintsSincePrev, 1, A) IN
                   /\ S # {}
                   /\ \A B \in S : Eval(last.res.LinExp, B) = Eval(a.LinExp, A)

\* what holds of ToBinary and FromBinary: the statement of C12 for a
\* non-constant a and n >= 2
BinaryRoundTripFromTwoBits ==
    /\ (last.op = "ToBinary" /\ last.args[2].n >= 2 /\ ~IsConstant(constant(last.args[1]))) =>
          LET a == constant(last.args[1])
              n == last.args[2].n
          IN /\ last.panic = ""
             /\ \A A \in [Wires(a.LinExp) -> Fp] :
                   (SatExt(NewConstraints, 1, A) # {}) <=> (Eval(a.LinExp, A) < 2 ^ n)
    /\ (last.op = "FromBinary" /\ last.prev.op = "ToBinary" /\ last.panic = ""
          /\ last.prev.outs # <<>> /\ ~IsConstant(constant(last.prev.args[1]))
          /\ last.args = [k \in DOMAIN last.prev.outs |-> Var(last.prev.outs[k])]) =>
          LET a == constant(last.prev.args[1])
              n == last.prev.args[2].n
          IN \A A \in [Wires(a.LinExp) -> Fp] :
                (Eval(a.LinExp, A) < 2 ^ n) =>
                   LET S == SatExt(ConstraintsSincePrev, 1, A) IN
                   /\ S # {}
                   /\ \A B \in S : Eval(last.res.LinExp, B) = Eval(a.LinExp, A)


(***************************************************************************)
(*                    Div, DivUnchecked and Inverse                        *)
(***************************************************************************)
\* Div and DivUnchecked on a constant divisor: the quotient is computed by
\* the builder and nothing is emitted
divConstant(cs, v1, v2) ==
    IF constantValue(v2) = 0
      THEN Panic(cs, "div by constant(0)")
      ELSE LET b2 == ModInverse(constantValue(v2)) IN
           IF IsConstant(v1)
             THEN Ok(cs, constant(Raw((b2 * constantValue(v1)) % Modulus)))
             ELSE mulConstant(cs, v1, constant(Raw(b2)))

\* Div without the constraint on the inverse of the divisor
DivNoInverseCheck(cs, i1, i2) ==
    LET vs == toVariables(<<i1, i2>>)
        v1 == vs[1]
        v2 == vs[2]
    IN IF ~IsConstant(v2)
         THEN LET r   == newInternalVariable(cs)
                  inv == newInternalVariable(r.cs)
              IN Ok(addConstraint(inv.cs, newR1C(v1, inv.res, r.res)), r.res)
         ELSE divConstant(cs, v1, v2)

\* Div returns res = i1 / i2
Div(cs, i1, i2) ==
    LET vs == toVariables(<<i1, i2>>)
        v1 == vs[1]
        v2 == vs[2]
    IN IF ~IsConstant(v2)
         THEN LET r   == newInternalVariable(cs)
                  inv == newInternalVariable(r.cs)
                  c1  == addConstraint(inv.cs, newR1C(v2, inv.res, one))
              IN Ok(addConstraint(c1, newR1C(v1, inv.res, r.res)), r.res)
         ELSE divConstant(cs, v1, v2)

\* DivUnchecked with the operands of the constraint exchanged
DivUncheckedSwapped(cs, i1, i2) ==
    LET vs == toVariables(<<i1, i2>>)
        v1 == vs[1]
        v2 == vs[2]
    IN IF ~IsConstant(v2)
         THEN LET r == newInternalVariable(cs)
              IN Ok(addConstraint(r.cs, newR1C(v1, r.res, v2)), r.res)
         ELSE divConstant(cs, v1, v2)

\* DivUnchecked returns res = i1 / i2 and does not constrain i2 to be non-zero
DivUnchecked(cs, i1, i2) ==
    LET vs == toVariables(<<i1, i2>>)
        v1 == vs[1]
        v2 == vs[2]
    IN IF ~IsConstant(v2)
         THEN LET r == newInternalVariable(cs)
              IN Ok(addConstraint(r.cs, newR1C(v2, r.res, v1)), r.res)
         ELSE divConstant(cs, v1, v2)

ApiDiv ==
    /\ UNCHANGED idleInBuilder
    /\ CanCall
    /\ \E i1, i2 \in Operands : Called("Div", <<i1, i2>>, Div(r1cs, i1, i2))

ApiDivUnchecked ==
    /\ UNCHANGED idleInBuilder
    /\ CanCall
    /\ \E i1, i2 \in Operands : Called("DivUnchecked", <<i1, i2>>, DivUnchecked(r1cs, i1, i2))

DivNext ==
    \/ ApiAdd
    \/ ApiMul
    \/ ApiDiv
    \/ ApiDivUnchecked
    \/ ApiInverse

\* the wires of the operands of the last call
ArgWires == UNION {Wires(constant(last.args[k]).LinExp) : k \in DOMAIN last.args}

\* C16: on a non-constant divisor b, Div(a, b) emits two constraints,
\* b * bInv = 1 and a * bInv = q, over two new internal wires; for the values
\* of the operands with b = 0 they are unsatisfiable, and with b # 0 they are
\* satisfiable and every solution has q = a * b^-1.
C16_Div ==
    (last.op = "Div" /\ ~IsConstant(constant(last.args[2]))) =>
        LET a    == constant(last.args[1])
            b    == constant(last.args[2])
            q    == last.res
            bInv == [LinExp |-> <<Term(1, "internal", last.before.NbInternal + 1)>>, IsBoolean |-> 0]
        IN /\ last.panic = ""
           /\ r1cs.NbInternal = last.before.NbInternal + 2
           /\ q.LinExp = <<Term(1, "internal", last.before.NbInternal)>>
           /\ Len(NewConstraints) = 2
           /\ NewConstraints[1] = newR1C(b, bInv, one)
           /\ NewConstraints[2] = newR1C(a, bInv, q)
           /\ \A A \in [ArgWires -> Fp] :
                 LET S == SatExt(NewConstraints, 1, A) IN
                 IF Eval(b.LinExp, A) = 0
                   THEN S = {}
                   ELSE /\ S # {}
                        /\ \A B \in S :
                              Eval(q.LinExp, B)
                                = (Eval(a.LinExp, A) * ModInverse(Eval(b.LinExp, A))) % Modulus

C16_Witness ==
    /\ last.op = "Div"
    /\ last.panic = ""
    /\ ~IsConstant(constant(last.args[1]))
    /\ ~IsConstant(constant(last.args[2]))
    /\ Len(constant(last.args[2]).LinExp) = 2
    /\ Len(NewConstraints) = 2

\* C17 as stated: on a non-constant divisor b, DivUnchecked(a, b) emits the
\* single constraint b * q = a over one new internal wire; with b # 0 it is
\* satisfiable and every solution has q = a * b^-1, and with b = 0 it is
\* still satisfiable (some values of the operands with b = 0 satisfy it).
C17_DivUncheckedAsStated ==
    (last.op = "DivUnchecked" /\ ~IsConstant(constant(last.args[2]))) =>
        LET a == constant(last.args[1])
            b == constant(last.args[2])
            q == last.res
        IN /\ last.panic = ""
           /\ r1cs.NbInternal = last.before.NbInternal + 1
           /\ q.LinExp = <<Term(1, "internal", last.before.NbInternal)>>
           /\ NewConstraints = <<newR1C(b, q, a)>>
           /\ \A A \in [ArgWires -> Fp] :
                 (Eval(b.LinExp, A) # 0) =>
                    LET S == SatExt(NewConstraints, 1, A) IN
                    /\ S # {}
                    /\ \A B \in S :
                          Eval(q.LinExp, B)
                            = (Eval(a.LinExp, A) * ModInverse(Eval(b.LinExp, A))) % Modulus
           /\ \E A \in [ArgWires -> Fp] :
                 /\ Eval(b.LinExp, A) = 0
                 /\ SatExt(NewConstraints, 1, A) # {}

\* C17: on a non-constant divisor b, DivUnchecked(a, b) emits the single
\* constraint b * q = a over one new internal wire; with b # 0 it is
\* satisfiable and every solution has q = a * b^-1; with b = 0 it is
\* satisfiable exactly when a = 0, and then every value of q satisfies it.
C17_DivUnchecked ==
    (last.op = "DivUnchecked" /\ ~IsConstant(constant(last.args[2]))) =>
        LET a == constant(last.args[1])
            b == constant(last.args[2])
            q == last.res
        IN /\ last.panic = ""
           /\ r1cs.NbInternal = last.before.NbInternal + 1
           /\ q.LinExp = <<Term(1, "internal", last.before.NbInternal)>>
           /\ NewConstraints = <<newR1C(b, q, a)>>
           /\ \A A \in [ArgWires -> Fp] :
                 LET S == SatExt(NewConstraints, 1, A) IN
                 IF Eval(b.LinExp, A) # 0
                   THEN /\ S # {}
                        /\ \A B \in S :
                              Eval(q.LinExp, B)
                                = (Eval(a.LinExp, A) * ModInverse(Eval(b.LinExp, A))) % Modulus
                   ELSE IF Eval(a.LinExp, A) = 0
                          THEN {Eval(q.LinExp, B) : B \in S} = Fp
                          ELSE S = {}

\* DivUnchecked(1, b) on a non-constant b, as in the Miller loop
C17_Witness ==
    /\ last.op = "DivUnchecked"
    /\ last.panic = ""
    /\ IsConstant(constant(last.args[1]))
    /\ constantValue(constant(last.args[1])) = 1
    /\ ~IsConstant(constant(last.args[2]))
    /\ Len(NewConstraints) = 1

\* the inv test circuit after d := Inverse(A) on the secret input A = pool[2]:
\* e := Inverse(c); AssertIsEqual(d, C); AssertIsEqual(e, C), C = pool[1]
invCircuit(cs, d, c) ==
    With(Inverse(cs, Raw(c)), LAMBDA e :
    With(AssertIsEqual(e.cs, Var(d), Var(pool[1])), LAMBDA q1 :
    With(AssertIsEqual(q1.cs, Var(e.res), Var(pool[1])), LAMBDA q2 : q2)))

\* C20: on a non-constant a, Inverse allocates one internal wire r and emits
\* the single constraint r * a = 1, satisfiable exactly for the values a # 0
\* and then only with r = a^-1; on a non-zero constant c it emits nothing and
\* returns the constant c^-1; the two paths give the same value for the same
\* input, and the inv circuit (d = Inverse(A), e = Inverse(c), d = C, e = C) is
\* satisfied with A = c exactly by C = c^-1.
C20_Inverse ==
    (last.op = "Inverse") =>
        LET a == constant(last.args[1])
            r == last.res
        IN IF IsConstant(a)
             THEN (constantValue(a) % Modulus # 0) =>
                     /\ last.panic = ""
                     /\ NewConstraints = <<>>
                     /\ r1cs.NbInternal = last.before.NbInternal
                     /\ IsConstant(r)
                     /\ constantValue(r) \in Fp
                     /\ (constantValue(r) * constantValue(a)) % Modulus = 1
             ELSE /\ last.panic = ""
                  /\ r1cs.NbInternal = last.before.NbInternal + 1
                  /\ r.LinExp = <<Term(1, "internal", last.before.NbInternal)>>
                  /\ NewConstraints = <<newR1C(r, a, one)>>
                  /\ \A A \in [Wires(a.LinExp) -> Fp] :
                        LET S == SatExt(NewConstraints, 1, A)
                            c == Eval(a.LinExp, A)
                        IN IF c = 0
                             THEN S = {}
                             ELSE /\ S # {}
                                  /\ \A B \in S :
                                        /\ (Eval(r.LinExp, B) * c) % Modulus = 1
                                        /\ Eval(r.LinExp, B)
                                             = constantValue(Inverse(r1cs, Raw(c)).res)
                  /\ (a = pool[2] /\ last.before.Constraints = <<>>) =>
                        \A c \in Fp \ {0} : \A x \in Fp :
                           LET circuit == invCircuit(r1cs, r, c)
                               A == (Wire(pool[2].LinExp[1]) :> c) @@ (Wire(pool[1].LinExp[1]) :> x)
                           IN /\ circuit.panic = ""
                              /\ Len(circuit.cs.Constraints) = 3
                              /\ (SatExt(circuit.cs.Constraints, 1, A) # {})
                                    <=> ((x * c) % Modulus = 1)

\* Inverse(A) on the secret input, the first call of the inv circuit
C20_Witness ==
    /\ last.op = "Inverse"
    /\ last.panic = ""
    /\ constant(last.args[1]) = pool[2]
    /\ last.before.Constraints = <<>>
    /\ Len(NewConstraints) = 1

(***************************************************************************)
(*                 The PLONK builder (sparseR1CS)                          *)
(*                                                                         *)
(* A Term is one wire with a coefficient. A gate over the Terms L, R, O    *)
(* and the product M[1] * M[2] with constant K means                       *)
(*     qL*l + qR*r + qM1*qM2*l*r + qO*o + K = 0                            *)
(* over the field of Modulus elements; a coefficient ID is modelled by the *)
(* coefficient it names. An operand of the API is a Term or a number.      *)
(***************************************************************************)
CoeffIdZero == 0

CoeffIdOne == 1

CoeffIdMinusOne == Modulus - 1

zero == Term(CoeffIdZero, "public", 0)

Tm(t) == [kind |-> "term", t |-> t, n |-> 0]

Cst(n) == [kind |-> "const", t |-> zero, n |-> n]

\* an entry of a slice of frontend.Variable that was never assigned
NilP == [kind |-> "nil", t |-> zero, n |-> 0]

EmptySystem == [Gates |-> <<>>, NbInternal |-> 0, MTBooleans |-> {}]

POk(s, res) == [cs |-> s, res |-> res, outs |-> <<>>, panic |-> ""]

PPanic(s, msg) == [cs |-> s, res |-> NilP, outs |-> <<>>, panic |-> msg]

\* the number of bits of n >= 0
BitLen(n) == CHOOSE k \in 0..(n + 1) : 2 ^ k > n /\ (k = 0 \/ 2 ^ (k - 1) <= n)

\* system.BitLen(): the number of bits of the modulus of the field
FieldBitLen == BitLen(Modulus)

newInternalTerm(s) ==
    [cs |-> [s EXCEPT !.NbInternal = @ + 1], res |-> Term(CoeffIdOne, "internal", s.NbInternal)]

isBoolean(s, t) == t \in s.MTBooleans

markBoolean(s, t) == [s EXCEPT !.MTBooleans = @ \cup {t}]

\* the gate takes the wires of l, r, o and the coefficients it is given
addPlonkConstraint(s, l, r, o, cidl, cidr, cidm1, cidm2, cido, k) ==
    [s EXCEPT !.Gates = Append(@, [L |-> [l EXCEPT !.coeff = cidl],
                                   R |-> [r EXCEPT !.coeff = cidr],
                                   O |-> [o EXCEPT !.coeff = cido],
                                   M |-> <<[l EXCEPT !.coeff = cidm1], [r EXCEPT !.coeff = cidm2]>>,
                                   K |-> k])]

\* ---- the arithmetic the assertions call ------------------------------
PlonkNeg(i) ==
    IF i.kind = "const" THEN Cst((0 - i.n) % Modulus)
    ELSE Tm([i.t EXCEPT !.coeff = (0 - @) % Modulus])

\* the sum of the constants among the operands
RECURSIVE constantSum(_, _)
constantSum(in, i) ==
    IF i > Len(in) THEN 0
    ELSE (IF in[i].kind = "const" THEN in[i].n ELSE 0) + constantSum(in, i + 1)

\* acc + rest[i] + ... : one gate and one new wire for every further term
RECURSIVE splitSum(_, _, _, _)
splitSum(s, acc, rest, i) ==
    IF i > Len(rest) THEN POk(s, Tm(acc))
    ELSE With(newInternalTerm(s), LAMBDA o :
         splitSum(addPlonkConstraint(o.cs, acc, rest[i], o.res, acc.coeff, rest[i].coeff,
                                     CoeffIdZero, CoeffIdZero, CoeffIdMinusOne, CoeffIdZero),
                  o.res, rest, i + 1))

\* Add: the constants fold, the Terms are reduced and chained by split gates
PlonkAdd(s, in) ==
    LET k  == constantSum(in, 1) % Modulus
        ts == SelectSeq(in, LAMBDA x : x.kind = "term")
        l  == reduce([LinExp |-> [j \in DOMAIN ts |-> ts[j].t], IsBoolean |-> 0]).LinExp
    IN IF l = <<>> THEN POk(s, Cst(k))
       ELSE IF k = 0 THEN splitSum(s, l[1], Tail(l), 1)
       ELSE With(newInternalTerm(s), LAMBDA o :
            splitSum(addPlonkConstraint(o.cs, l[1], zero, o.res, l[1].coeff, CoeffIdZero,
                                        CoeffIdZero, CoeffIdZero, CoeffIdMinusOne, k),
                     o.res, Tail(l), 1))

\* Sub: Add with every operand but the first negated
PlonkSub(s, in) == PlonkAdd(s, [j \in DOMAIN in |-> IF j = 1 THEN in[j] ELSE PlonkNeg(in[j])])

\* Mul: constants fold, a constant rescales a Term, two Terms take a gate
PlonkMul(s, i1, i2) ==
    IF i1.kind = "const" /\ i2.kind = "const" THEN POk(s, Cst((i1.n * i2.n) % Modulus))
    ELSE IF i1.kind = "const" THEN POk(s, Tm([i2.t EXCEPT !.coeff = (@ * i1.n) % Modulus]))
    ELSE IF i2.kind = "const" THEN POk(s, Tm([i1.t EXCEPT !.coeff = (@ * i2.n) % Modulus]))
    ELSE With(newInternalTerm(s), LAMBDA o :
         POk(addPlonkConstraint(o.cs, i1.t, i2.t, o.res, CoeffIdZero, CoeffIdZero,
                                i1.t.coeff, i2.t.coeff, CoeffIdMinusOne, CoeffIdZero),
             Tm(o.res)))

\* ---- assertions -------------------------------------------------------
\* AssertIsEqual fails if i1 != i2
PlonkAssertIsEqual(s, i1, i2) ==
    IF i1.kind = "const" /\ i2.kind = "const"
      THEN IF i1.n # i2.n THEN PPanic(s, "i1, i2 should be equal") ELSE POk(s, NilP)
      ELSE LET a == IF i1.kind = "const" THEN i2 ELSE i1
               b == IF i1.kind = "const" THEN i1 ELSE i2
           IN IF b.kind = "const"
                THEN POk(addPlonkConstraint(s, a.t, zero, zero, a.t.coeff, CoeffIdZero,
                                            CoeffIdZero, CoeffIdZero, CoeffIdZero,
                                            (0 - b.n) % Modulus), NilP)
                ELSE LET r == PlonkNeg(b).t
                     IN POk(addPlonkConstraint(s, a.t, r, zero, a.t.coeff, r.coeff,
                                               CoeffIdZero, CoeffIdZero, CoeffIdZero,
                                               CoeffIdZero), NilP)

\* AssertIsBoolean that does not look the Term up in the table
PlonkAssertIsBooleanAlways(s, i1) ==
    IF i1.kind = "const"
      THEN IF i1.n \notin {0, 1} THEN PPanic(s, "assertIsBoolean failed") ELSE POk(s, NilP)
      ELSE LET t   == i1.t
               cID == t.coeff
           IN POk(addPlonkConstraint(markBoolean(s, t), t, t, zero, cID, CoeffIdZero,
                                     (0 - cID) % Modulus, cID, CoeffIdZero, CoeffIdZero), NilP)

\* AssertIsBoolean fails if v != 0 and v != 1
PlonkAssertIsBoolean(s, i1) ==
    IF i1.kind = "const"
      THEN IF i1.n \notin {0, 1} THEN PPanic(s, "assertIsBoolean failed") ELSE POk(s, NilP)
      ELSE LET t   == i1.t
               cID == t.coeff
           IN IF isBoolean(s, t) THEN POk(s, NilP)
              ELSE POk(addPlonkConstraint(markBoolean(s, t), t, t, zero, cID, CoeffIdZero,
                                          (0 - cID) % Modulus, cID, CoeffIdZero, CoeffIdZero),
                       NilP)

\* Select asserts that b is boolean and returns b*(i1 - i2) + i2
PlonkSelect(s, b, i1, i2) ==
    With(PlonkAssertIsBoolean(s, b), LAMBDA ab :
    IF ab.panic # "" THEN ab
    ELSE IF b.kind = "const" THEN POk(ab.cs, IF b.n = 1 THEN i1 ELSE i2)
    ELSE With(PlonkSub(ab.cs, <<i1, i2>>), LAMBDA u :
         With(PlonkMul(u.cs, u.res, b), LAMBDA l :
         PlonkAdd(l.cs, <<l.res, i2>>))))

\* the bit wires of toBinary, each asserted boolean unless unsafe
RECURSIVE plonkBits(_, _, _, _, _)
plonkBits(s, i, nbBits, unsafe, bits) ==
    IF i = nbBits THEN [cs |-> s, res |-> NilP, outs |-> bits, panic |-> ""]
    ELSE With(newInternalTerm(s), LAMBDA b :
         With(IF unsafe THEN POk(b.cs, NilP) ELSE PlonkAssertIsBoolean(b.cs, Tm(b.res)),
              LAMBDA ab : plonkBits(ab.cs, i + 1, nbBits, unsafe, Append(bits, b.res))))

\* toBinary for nbBits >= 2: nbBits new wires b with sum 2^i * b[i] = a
PlonkToBinary(s, a, nbBits, unsafe) ==
    With(plonkBits(s, 0, nbBits, unsafe, <<>>), LAMBDA bs :
    With(PlonkAdd(bs.cs, [k \in 1..nbBits |->
                             Tm([bs.outs[k] EXCEPT !.coeff = (2 ^ (k - 1)) % Modulus])]),
         LAMBDA sum :
    With(PlonkAssertIsEqual(sum.cs, sum.res, Tm(a)), LAMBDA eq :
    [cs |-> eq.cs, res |-> NilP, outs |-> bs.outs, panic |-> eq.panic])))

\* the number of trailing one bits of the bound
TrailingOnes(bound, nbBits) ==
    CHOOSE t \in 0..nbBits :
        /\ \A i \in 0..(t - 1) : Bit(bound, i) = 1
        /\ t = nbBits \/ Bit(bound, t) = 0

\* p[i] for i = nbBits-1 down to t; aBits[i + 1] is bit i of a
RECURSIVE cstCarry(_, _, _, _, _, _)
cstCarry(s, aBits, bound, i, t, p) ==
    IF i < t THEN [cs |-> s, p |-> p]
    ELSE IF Bit(bound, i) = 0
           THEN cstCarry(s, aBits, bound, i - 1, t, [p EXCEPT ![i] = p[i + 1]])
           ELSE With(PlonkMul(s, p[i + 1], Tm(aBits[i + 1])), LAMBDA m :
                cstCarry(m.cs, aBits, bound, i - 1, t, [p EXCEPT ![i] = m.res]))

\* the gate of every bit, for i = nbBits-1 down to 0
RECURSIVE cstGates(_, _, _, _, _)
cstGates(s, aBits, bound, i, p) ==
    IF i < 0 THEN POk(s, NilP)
    ELSE IF Bit(bound, i) = 0
           THEN With(PlonkSub(s, <<Cst(1), p[i + 1], Tm(aBits[i + 1])>>), LAMBDA l :
                IF l.res.kind # "term" THEN PPanic(l.cs, "interface conversion")
                ELSE cstGates(addPlonkConstraint(l.cs, l.res.t, aBits[i + 1], zero,
                                                 CoeffIdZero, CoeffIdZero, CoeffIdOne,
                                                 CoeffIdOne, CoeffIdZero, CoeffIdZero),
                              aBits, bound, i - 1, p))
           ELSE With(PlonkAssertIsBoolean(s, Tm(aBits[i + 1])), LAMBDA ab :
                cstGates(ab.cs, aBits, bound, i - 1, p))

\* p before the loops: p[nbBits] = 1, the other entries not assigned
InitialCarry(nbBits) == [i \in 0..nbBits |-> IF i = nbBits THEN Cst(1) ELSE NilP]

\* mustBeLessOrEqCst with every p[i] taken to be 0
mustBeLessOrEqCstNoCarry(s, a, bound) ==
    IF bound < 0
      THEN PPanic(s, "AssertIsLessOrEqual: bound must be positive")
      ELSE IF BitLen(bound) > FieldBitLen
        THEN PPanic(s, "AssertIsLessOrEqual: bound is too large, constraint will never be satisfied")
        ELSE With(PlonkToBinary(s, a, FieldBitLen, TRUE), LAMBDA ab :
             cstGates(ab.cs, ab.outs, bound, FieldBitLen - 1,
                      [i \in 0..FieldBitLen |-> Cst(0)]))

mustBeLessOrEqCst(s, a, bound) ==
    IF bound < 0
      THEN PPanic(s, "AssertIsLessOrEqual: bound must be positive")
      ELSE IF BitLen(bound) > FieldBitLen
        THEN PPanic(s, "AssertIsLessOrEqual: bound is too large, constraint will never be satisfied")
        ELSE With(PlonkToBinary(s, a, FieldBitLen, TRUE), LAMBDA ab :
             With(cstCarry(ab.cs, ab.outs, bound, FieldBitLen - 1,
                           TrailingOnes(bound, FieldBitLen), InitialCarry(FieldBitLen)),
                  LAMBDA c :
             cstGates(c.cs, ab.outs, bound, FieldBitLen - 1, c.p)))

\* the loop of mustBeLessOrEqVar, for i = nbBits-1 down to 0; pn is p[i+1]
RECURSIVE varLoop(_, _, _, _, _)
varLoop(s, aBits, boundBits, i, pn) ==
    IF i < 0 THEN POk(s, NilP)
    ELSE With(PlonkMul(s, pn, Tm(aBits[i + 1])), LAMBDA v :
         With(PlonkSelect(v.cs, Tm(boundBits[i + 1]), v.res, pn), LAMBDA pi :
         With(PlonkSelect(pi.cs, Tm(boundBits[i + 1]), Cst(0), pn), LAMBDA t :
         With(PlonkSub(t.cs, <<Cst(1), t.res, Tm(aBits[i + 1])>>), LAMBDA l :
         IF l.res.kind # "term" THEN PPanic(l.cs, "interface conversion")
         ELSE varLoop(addPlonkConstraint(markBoolean(l.cs, aBits[i + 1]), l.res.t,
                                         aBits[i + 1], zero, CoeffIdZero, CoeffIdZero,
                                         CoeffIdOne, CoeffIdOne, CoeffIdZero, CoeffIdZero),
                      aBits, boundBits, i - 1, pi.res)))))

mustBeLessOrEqVar(s, a, bound) ==
    With(PlonkToBinary(s, a, FieldBitLen, TRUE), LAMBDA aBits :
    With(PlonkToBinary(aBits.cs, bound, FieldBitLen, FALSE), LAMBDA boundBits :
    varLoop(boundBits.cs, aBits.outs, boundBits.outs, FieldBitLen - 1, Cst(1))))

\* AssertIsLessOrEqual fails if v > bound
PlonkAssertIsLessOrEqual(s, v, bound) ==
    IF v.kind # "term" THEN PPanic(s, "interface conversion")
    ELSE IF bound.kind = "term" THEN mustBeLessOrEqVar(s, v.t, bound.t)
    ELSE mustBeLessOrEqCst(s, v.t, bound.n)

\* ---- the meaning of gates ---------------------------------------------
TermValue(t, A) == IF t.coeff = 0 THEN 0 ELSE t.coeff * A[Wire(t)]

GateWires(g) == {Wire(t) : t \in {x \in {g.L, g.R, g.O, g.M[1], g.M[2]} : x.coeff # 0}}

GateHolds(g, A) ==
    (TermValue(g.L, A) + TermValue(g.R, A) + TermValue(g.M[1], A) * TermValue(g.M[2], A)
       + TermValue(g.O, A) + g.K) % Modulus = 0

\* the assignments that extend A to the wires of gates i.. and satisfy them
RECURSIVE GateSatExt(_, _, _)
GateSatExt(gates, i, A) ==
    IF i > Len(gates) THEN {A}
    ELSE LET new  == GateWires(gates[i]) \ DOMAIN A
             exts == {A @@ f : f \in [new -> Fp]}
         IN UNION {GateSatExt(gates, i + 1, B) : B \in {E \in exts : GateHolds(gates[i], E)}}

\* ---- the circuit and its calls ------------------------------------------
NoCallP(s) == [op |-> "none", args |-> <<>>, before |-> s, panic |-> ""]

MaxBound == 8

\* a builder with one secret input X and one public input Y
PlonkInit ==
    /\ system = EmptySystem
    /\ terms = <<Term(CoeffIdOne, "secret", 0), Term(CoeffIdOne, "public", 1)>>
    /\ lastP = NoCallP(EmptySystem)
    /\ nopsP = 0

PlonkOperands == {Tm(terms[i]) : i \in DOMAIN terms} \cup {Cst(n) : n \in 0..MaxConst}

CanCallP == nopsP < MaxOps /\ lastP.panic = "" /\ terms # <<>>

CalledP(op, args, r) ==
    /\ system' = r.cs
    /\ terms' = IF r.panic = "" /\ r.res.kind = "term" /\ r.res.t.coeff # 0
                  THEN terms \o <<r.res.t>> ELSE terms
    /\ lastP' = [op |-> op, args |-> args, before |-> system, panic |-> r.panic]
    /\ nopsP' = nopsP + 1

ApiPlonkMul ==
    /\ UNCHANGED idleInPlonk
    /\ CanCallP
    /\ \E i1, i2 \in PlonkOperands : CalledP("Mul", <<i1, i2>>, PlonkMul(system, i1, i2))

ApiPlonkAssertIsEqual ==
    /\ UNCHANGED idleInPlonk
    /\ CanCallP
    /\ \E i1, i2 \in PlonkOperands :
          CalledP("AssertIsEqual", <<i1, i2>>, PlonkAssertIsEqual(system, i1, i2))

ApiPlonkAssertIsBoolean ==
    /\ UNCHANGED idleInPlonk
    /\ CanCallP
    /\ \E i1 \in PlonkOperands :
          CalledP("AssertIsBoolean", <<i1>>, PlonkAssertIsBoolean(system, i1))

ApiPlonkAssertIsLessOrEqual ==
    /\ UNCHANGED idleInPlonk
    /\ CanCallP
    /\ \E v \in PlonkOperands :
       \E bound \in {Tm(terms[i]) : i \in DOMAIN terms} \cup {Cst(n) : n \in (0 - 1)..MaxBound} :
          CalledP("AssertIsLessOrEqual", <<v, bound>>, PlonkAssertIsLessOrEqual(system, v, bound))

PlonkNext ==
    \/ ApiPlonkMul
    \/ ApiPlonkAssertIsEqual
    \/ ApiPlonkAssertIsBoolean
    \/ ApiPlonkAssertIsLessOrEqual

\* the gates the last call added
NewGates == SubSeq(system.Gates, Len(lastP.before.Gates) + 1, Len(system.Gates))

\* the value of a Term under an assignment of its wire
TermWires(t) == IF t.coeff = 0 THEN {} ELSE {Wire(t)}

\* the last call was AssertIsLessOrEqual(v, bound) on a Term v
LessOrEqualCalled ==
    /\ lastP.op = "AssertIsLessOrEqual"
    /\ lastP.args[1].kind = "term"

\* the gates of the last call can be satisfied with the value x on the wire of t
SatisfiableWith(t, x) == GateSatExt(NewGates, 1, (Wire(t) :> x)) # {}

\* C13: for every constant bound B with 0 <= B < 2^nbBits and every value of
\* the Term a, the gates AssertIsLessOrEqual(a, B) emits can be satisfied by
\* some values of its internal wires if and only if a <= B.
C13_LessOrEqualConstant ==
    (LessOrEqualCalled /\ lastP.args[2].kind = "const"
       /\ lastP.args[2].n >= 0 /\ lastP.args[2].n < 2 ^ FieldBitLen) =>
        LET a == lastP.args[1].t
            B == lastP.args[2].n
        IN /\ lastP.panic = ""
           /\ \A x \in Fp : SatisfiableWith(a, x) <=> ((a.coeff * x) % Modulus <= B)

\* a bound with a zero bit below a one bit, on a Term with a coefficient
C13_Witness ==
    /\ LessOrEqualCalled
    /\ lastP.panic = ""
    /\ lastP.args[2].kind = "const"
    /\ lastP.args[2].n = 2
    /\ lastP.args[1].t.coeff = 2
    /\ SatisfiableWith(lastP.args[1].t, 1)
    /\ ~SatisfiableWith(lastP.args[1].t, 4)

\* C14: AssertIsLessOrEqual(v, bound) on a Term bound: for all values of v
\* and bound, compared as integers in [0, Modulus), the gates emitted can be
\* satisfied by some values of the internal wires if and only if v <= bound.
C14_LessOrEqualVariable ==
    (LessOrEqualCalled /\ lastP.args[2].kind = "term") =>
        LET v     == lastP.args[1].t
            bound == lastP.args[2].t
        IN /\ lastP.panic = ""
           /\ \A A \in [{Wire(v), Wire(bound)} -> Fp] :
                 (GateSatExt(NewGates, 1, A) # {})
                    <=> (TermValue(v, A) % Modulus <= TermValue(bound, A) % Modulus)

\* the half of C14 that holds: the gates are satisfiable whenever v <= bound
LessOrEqualVariableAccepts ==
    (LessOrEqualCalled /\ lastP.args[2].kind = "term") =>
        LET v     == lastP.args[1].t
            bound == lastP.args[2].t
        IN /\ lastP.panic = ""
           /\ \A A \in [{Wire(v), Wire(bound)} -> Fp] :
                 (TermValue(v, A) % Modulus <= TermValue(bound, A) % Modulus)
                    => GateSatExt(NewGates, 1, A) # {}

\* the gates are satisfiable exactly when v is at most some integer below
\* 2^nbBits that is congruent to bound
LessOrEqualVariableUpToWrap ==
    (LessOrEqualCalled /\ lastP.args[2].kind = "term") =>
        LET v     == lastP.args[1].t
            bound == lastP.args[2].t
        IN \A A \in [{Wire(v), Wire(bound)} -> Fp] :
              (GateSatExt(NewGates, 1, A) # {})
                 <=> \E k \in 0..(2 ^ FieldBitLen - 1) :
                        /\ k % Modulus = TermValue(bound, A) % Modulus
                        /\ TermValue(v, A) % Modulus <= k

\* the positions of the gates of the builder that assert that t is boolean:
\* c*x - c*c*x*x = 0 on the wire x of t with coefficient c
BooleanGates(t) ==
    {i \in DOMAIN system.Gates :
        LET g == system.Gates[i] IN
        /\ g.L = t
        /\ g.M = <<[t EXCEPT !.coeff = (0 - t.coeff) % Modulus], t>>
        /\ g.R.coeff = 0 /\ g.O.coeff = 0 /\ g.K = 0}

\* C15: AssertIsBoolean on a Term already marked boolean emits no gate and
\* leaves the builder as it was; on a Term not yet marked it emits exactly
\* one gate, satisfied exactly when the value of the Term is 0 or 1, and
\* marks the Term; after it, whatever the calls before, the builder holds
\* exactly one boolean gate of the Term.
C15_AssertIsBooleanOnce ==
    (lastP.op = "AssertIsBoolean" /\ lastP.args[1].kind = "term") =>
        LET t == lastP.args[1].t IN
        /\ lastP.panic = ""
        /\ IF isBoolean(lastP.before, t)
             THEN system = lastP.before
             ELSE /\ Len(NewGates) = 1
                  /\ \A x \in Fp :
                        GateHolds(NewGates[1], (Wire(t) :> x))
                           <=> ((t.coeff * x) % Modulus \in {0, 1})
                  /\ system.MTBooleans = lastP.before.MTBooleans \cup {t}
                  /\ system.NbInternal = lastP.before.NbInternal
        /\ isBoolean(system, t)
        /\ Cardinality(BooleanGates(t)) = 1

\* the second AssertIsBoolean on the same Term
C15_Witness ==
    /\ lastP.op = "AssertIsBoolean"
    /\ lastP.args[1].kind = "term"
    /\ isBoolean(lastP.before, lastP.args[1].t)
    /\ NewGates = <<>>
    /\ Len(system.Gates) = 1

(***************************************************************************)
(*                 Errors on constant operands                             *)
(***************************************************************************)
ErrorsNext ==
    \/ ApiMul
    \/ ApiDiv
    \/ ApiDivUnchecked
    \/ ApiInverse
    \/ ApiToBinary
    \/ ApiPlonkMul
    \/ ApiPlonkAssertIsEqual
    \/ ApiPlonkAssertIsBoolean
    \/ ApiPlonkAssertIsLessOrEqual

\* the last call on the R1CS builder panicked and left the builder as it was
AbortedUntouched == last.panic # "" /\ r1cs = last.before

\* the last call on the R1CS builder returned and emitted nothing
ReturnedNothingEmitted ==
    /\ last.panic = ""
    /\ r1cs.Constraints = last.before.Constraints
    /\ r1cs.NbInternal = last.before.NbInternal

AbortedUntouchedP == lastP.panic # "" /\ system = lastP.before

ReturnedUntouchedP == lastP.panic = "" /\ system = lastP.before

ConstantArg(k) == IsConstant(constant(last.args[k]))

ConstantArgValue(k) == constantValue(constant(last.args[k]))

\* C18: an error on constant operands aborts the call before a wire is
\* allocated or a constraint appended: Div, DivUnchecked and Inverse with
\* the constant divisor 0, ToBinary with a negative number of bits,
\* AssertIsBoolean on a constant other than 0 and 1, AssertIsEqual on two
\* different constants, AssertIsLessOrEqual with a constant bound that is
\* negative or longer than the field; the same calls on valid constants
\* return and emit nothing.
C18_ConstantErrors ==
    /\ (last.op \in {"Div", "DivUnchecked"} /\ ConstantArg(2)) =>
          IF ConstantArgValue(2) = 0 THEN AbortedUntouched
          ELSE /\ last.panic = ""
               /\ ConstantArg(1) => ReturnedNothingEmitted
    /\ (last.op = "Inverse" /\ ConstantArg(1)) =>
          IF ConstantArgValue(1) = 0 THEN AbortedUntouched ELSE ReturnedNothingEmitted
    /\ (last.op = "ToBinary") =>
          IF last.args[2].n < 0 THEN AbortedUntouched
          ELSE ConstantArg(1) => ReturnedNothingEmitted
    /\ (lastP.op = "AssertIsBoolean" /\ lastP.args[1].kind = "const") =>
          IF lastP.args[1].n \in {0, 1} THEN ReturnedUntouchedP ELSE AbortedUntouchedP
    /\ (lastP.op = "AssertIsEqual" /\ lastP.args[1].kind = "const"
          /\ lastP.args[2].kind = "const") =>
          IF lastP.args[1].n = lastP.args[2].n THEN ReturnedUntouchedP ELSE AbortedUntouchedP
    /\ (lastP.op = "AssertIsLessOrEqual" /\ lastP.args[2].kind = "const"
          /\ (lastP.args[2].n < 0 \/ BitLen(lastP.args[2].n) > FieldBitLen)) =>
          AbortedUntouchedP

\* Inverse of the constant 0 after a call that emitted a constraint
C18_Witness ==
    /\ last.op = "Inverse"
    /\ ConstantArg(1)
    /\ ConstantArgValue(1) = 0
    /\ last.panic = "inverse by constant(0)"
    /\ Len(r1cs.Constraints) >= 1

(***************************************************************************)
(*                           Assert.Fuzz                                   *)
(*                                                                         *)
(* One subtest of Fuzz: a curve and a backend. The test engine and the     *)
(* solver of the backend are functions of the witness. FailNow ends the    *)
(* subtest.                                                                *)
(***************************************************************************)
MaxWitness == 2

MaxFuzzCount == 1

Witnesses == 0..MaxWitness

\* what zeroFiller fills in
ZeroWitness == 0

\* the three fillers of every round
Fillers == <<"randomFiller", "binaryFiller", "seedFiller">>

\* IsSolved of the test engine, and IsSolved of the backend on the compiled circuit
EngineIsSolved(w) == IF engineOk[w] THEN "nil" ELSE "error"

BackendIsSolved(w) == IF solverOk[w] THEN "nil" ELSE "error"

\* checkError and mustError: TRUE when the test goes on, FALSE on FailNow
checkError(err) == err = "nil"

mustErrorIgnored(err) == TRUE

mustError(err) == err # "nil"

FuzzInit ==
    /\ engineOk \in [Witnesses -> BOOLEAN]
    /\ solverOk \in [Witnesses -> BOOLEAN]
    /\ compileOk \in BOOLEAN
    /\ fuzzCount \in 0..MaxFuzzCount
    /\ fpc = "compile"
    /\ fw = ZeroWitness
    /\ flog = <<>>
    /\ valid = 0

\* the fuzzer call ended: it returned 1 or 0, or the test failed
FuzzerEnds(how) ==
    /\ flog' = Append(flog, [w |-> fw, how |-> how])
    /\ valid' = IF how = "valid" THEN valid + 1 ELSE valid
    /\ fpc' = IF how = "failed" THEN "failed" ELSE "fill"
    /\ UNCHANGED <<engineOk, solverOk, compileOk, fuzzCount, fw>>

FuzzStep(to) ==
    /\ fpc' = to
    /\ UNCHANGED <<engineOk, solverOk, compileOk, fuzzCount, fw, flog, valid>>

\* _, err := assert.compile(...); assert.NoError(err)
FuzzCompile ==
    /\ UNCHANGED idleInFuzz
    /\ fpc = "compile"
    /\ FuzzStep(IF compileOk THEN "fill" ELSE "failed")

\* fuzzer(w, curve): zeroFiller first, then the fillers of every round
FuzzFill ==
    /\ UNCHANGED idleInFuzz
    /\ fpc = "fill"
    /\ Len(flog) < 1 + fuzzCount * Len(Fillers)
    /\ \E w \in (IF flog = <<>> THEN {ZeroWitness} ELSE Witnesses) :
          /\ fw' = w
          /\ fpc' = "fuzzer"
          /\ UNCHANGED <<engineOk, solverOk, compileOk, fuzzCount, flog, valid>>

FuzzDone ==
    /\ UNCHANGED idleInFuzz
    /\ fpc = "fill"
    /\ Len(flog) = 1 + fuzzCount * Len(Fillers)
    /\ FuzzStep("done")

\* err := IsSolved(circuit, w, curve, b)
FuzzerIsSolved ==
    /\ UNCHANGED idleInFuzz
    /\ fpc = "fuzzer"
    /\ FuzzStep(IF EngineIsSolved(fw) = "nil" THEN "succeeded.compile" ELSE "failed.compile")

\* solvingSucceeded: the circuit is in the cache, compile returns it
SucceededCompile ==
    /\ UNCHANGED idleInFuzz
    /\ fpc = "succeeded.compile"
    /\ FuzzStep(IF checkError("nil") THEN "succeeded.engine" ELSE "failed")

SucceededEngine ==
    /\ UNCHANGED idleInFuzz
    /\ fpc = "succeeded.engine"
    /\ IF checkError(EngineIsSolved(fw)) THEN FuzzStep("succeeded.backend")
       ELSE FuzzerEnds("failed")

SucceededBackend ==
    /\ UNCHANGED idleInFuzz
    /\ fpc = "succeeded.backend"
    /\ FuzzerEnds(IF checkError(BackendIsSolved(fw)) THEN "valid" ELSE "failed")

\* solvingFailed
FailedCompile ==
    /\ UNCHANGED idleInFuzz
    /\ fpc = "failed.compile"
    /\ FuzzStep(IF checkError("nil") THEN "failed.engine" ELSE "failed")

FailedEngine ==
    /\ UNCHANGED idleInFuzz
    /\ fpc = "failed.engine"
    /\ IF mustError(EngineIsSolved(fw)) THEN FuzzStep("failed.backend")
       ELSE FuzzerEnds("failed")

FailedBackend ==
    /\ UNCHANGED idleInFuzz
    /\ fpc = "failed.backend"
    /\ FuzzerEnds(IF mustError(BackendIsSolved(fw)) THEN "invalid" ELSE "failed")

FuzzNext ==
    \/ FuzzCompile
    \/ FuzzFill
    \/ FuzzDone
    \/ FuzzerIsSolved
    \/ SucceededCompile
    \/ SucceededEngine
    \/ SucceededBackend
    \/ FailedCompile
    \/ FailedEngine
    \/ FailedBackend

\* C19: the fuzzer returns 1 only for a witness both the test engine and the
\* solver of the backend accept, and 0 only for a witness both reject; on a
\* witness they disagree on, the call fails the test, and then no further
\* witness is fuzzed; valid counts the witnesses both accept.
C19_FuzzAgreement ==
    /\ \A i \in DOMAIN flog :
          LET w == flog[i].w IN
          /\ (flog[i].how = "valid") <=> (engineOk[w] /\ solverOk[w])
          /\ (flog[i].how = "invalid") <=> (~engineOk[w] /\ ~solverOk[w])
          /\ (flog[i].how = "failed") <=> (engineOk[w] # solverOk[w])
          /\ flog[i].how = "failed" => (i = Len(flog) /\ fpc = "failed")
    /\ valid = Cardinality({i \in DOMAIN flog : flog[i].how = "valid"})
    /\ fpc = "done" => \A i \in DOMAIN flog : engineOk[flog[i].w] = solverOk[flog[i].w]

\* a witness the engine rejects and the solver accepts failed the test,
\* after a witness both accept
C19_Witness ==
    /\ Len(flog) = 2
    /\ flog[1].how = "valid"
    /\ flog[2].how = "failed"
    /\ ~engineOk[flog[2].w]
    /\ solverOk[flog[2].w]
    /\ fpc = "failed"

\* what C21 states of ToBinary(a, n) on a non-constant a: it returns n new
\* hinted wires, each marked boolean, and appends the n boolean constraints
\* and, last, one constraint 1 * (sum - a) = 0
ToBinaryContract ==
    LET a == constant(last.args[1])
        n == last.args[2].n
    IN /\ last.panic = ""
       /\ Len(last.outs) = n
       /\ Len(r1cs.Hints) = Len(last.before.Hints) + n
       /\ \A k \in 1..n :
             /\ last.outs[k].LinExp = <<Term(1, "internal", last.before.NbInternal + k - 1)>>
             /\ IsMarked(r1cs, last.outs[k])
       /\ Len(NewConstraints) >= n + 1
       /\ r1cs.BackendID = "GROTH16" => Len(NewConstraints) = n + 1
       /\ NewConstraints[Len(NewConstraints)].L = one.LinExp
       /\ NewConstraints[Len(NewConstraints)].O = constant(Raw(0)).LinExp

\* C21: for every bit count n >= 0 and every non-constant a, ToBinary(a, n)
\* completes without a fault, returns exactly n hinted bit wires, asserts each
\* of them boolean and emits exactly one equality constraint sum 2^i*b_i = a.
C21_ToBinaryTotal ==
    (last.op = "ToBinary" /\ last.args[2].n >= 0 /\ ~IsConstant(constant(last.args[1])))
       => ToBinaryContract

\* the same for n >= 2
ToBinaryFromTwoBits ==
    (last.op = "ToBinary" /\ last.args[2].n >= 2 /\ ~IsConstant(constant(last.args[1])))
       => ToBinaryContract

(***************************************************************************)
(*                             Xor and Or                                  *)
(***************************************************************************)
\* the part Xor and Or share: both operands asserted boolean, res allocated
\* with its marker set, c = -res + a.LinExp[0] + b.LinExp[0], and the
\* constraint l * b = c appended, where l is 2a for Xor and a for Or
xorOr(cs, i1, i2, double) ==
    LET vs == toVariables(<<i1, i2>>)
        a  == vs[1]
        b  == vs[2]
    IN With(AssertIsBoolean(cs, Var(a)), LAMBDA ba :
       IF ba.panic # "" THEN ba ELSE
       With(AssertIsBoolean(ba.cs, Var(b)), LAMBDA bb :
       IF bb.panic # "" THEN bb ELSE
       With(newInternalVariable(bb.cs), LAMBDA r :
       With([r.cs EXCEPT !.Bool[r.res.IsBoolean] = TRUE], LAMBDA marked :
       IF a.LinExp = <<>> \/ b.LinExp = <<>> THEN Panic(marked, "index out of range") ELSE
       With(IF double THEN Mul(NewMarker(marked), Var(a), Raw(2)) ELSE Ok(NewMarker(marked), a),
            LAMBDA aa :
       Ok([aa.cs EXCEPT !.Constraints =
              Append(@, [L |-> aa.res.LinExp, R |-> b.LinExp,
                         O |-> negateLinExp(r.res.LinExp) \o <<a.LinExp[1], b.LinExp[1]>>])],
          r.res))))))

\* Xor compute the XOR between two Variables
Xor(cs, i1, i2) == xorOr(cs, i1, i2, TRUE)

\* Or compute the OR between two Variables
Or(cs, i1, i2) == xorOr(cs, i1, i2, FALSE)

ApiXor ==
    /\ UNCHANGED idleInBuilder
    /\ CanCall
    /\ \E i1, i2 \in Operands : Called("Xor", <<i1, i2>>, Xor(r1cs, i1, i2))

ApiOr ==
    /\ UNCHANGED idleInBuilder
    /\ CanCall
    /\ \E i1, i2 \in Operands : Called("Or", <<i1, i2>>, Or(r1cs, i1, i2))

BoolNext ==
    \/ ApiAdd
    \/ ApiMul
    \/ ApiNeg
    \/ ApiXor
    \/ ApiOr

\* a XOR b and a OR b on values in {0,1}
BoolResult(op, x, y) == IF op = "Xor" THEN (x + y) % 2 ELSE IF x + y = 0 THEN 0 ELSE 1

\* for the values A of the operand wires with a and b in {0,1}: the
\* constraints of the last call are satisfiable, and the result is a op b
XorOrCorrect ==
    LET a == constant(last.args[1])
        b == constant(last.args[2])
    IN /\ last.panic = ""
       /\ \A A \in [ArgWires -> Fp] :
             (Eval(a.LinExp, A) \in {0, 1} /\ Eval(b.LinExp, A) \in {0, 1}) =>
                LET S == SatExt(NewConstraints, 1, A) IN
                /\ S # {}
                /\ \A B \in S : Eval(last.res.LinExp, B)
                                   = BoolResult(last.op, Eval(a.LinExp, A), Eval(b.LinExp, A))

\* C22: for all operand Variables a and b, whatever the number of terms of
\* their linear expressions, in every assignment satisfying the constraints
\* of Xor(a, b) (of Or(a, b)) with a and b in {0,1} the result is a XOR b
\* (a OR b), and such an assignment exists for all such values of a and b.
C22_XorOr ==
    (last.op \in {"Xor", "Or"}
       /\ ~(IsConstant(constant(last.args[1])) /\ constantValue(constant(last.args[1])) \notin {0, 1})
       /\ ~(IsConstant(constant(last.args[2])) /\ constantValue(constant(last.args[2])) \notin {0, 1}))
       => XorOrCorrect

\* the same for operands of one term each
XorOrOnSingleTerms ==
    (last.op \in {"Xor", "Or"}
       /\ Len(constant(last.args[1]).LinExp) = 1 /\ Len(constant(last.args[2]).LinExp) = 1
       /\ ~(IsConstant(constant(last.args[1])) /\ constantValue(constant(last.args[1])) \notin {0, 1})
       /\ ~(IsConstant(constant(last.args[2])) /\ constantValue(constant(last.args[2])) \notin {0, 1}))
       => XorOrCorrect

(***************************************************************************)
(*                 Add and Sub under the two backends                      *)
(***************************************************************************)

\* the linear expression Add or Sub has after cs.reduce, before the backend
\* is looked at
AddSubReduced ==
    LET vs == toVariables(last.args)
        l2 == IF last.op = "Sub" THEN negateLinExp(vs[2].LinExp) ELSE vs[2].LinExp
    IN reduce([LinExp |-> vs[1].LinExp \o l2, IsBoolean |-> 0]).LinExp

\* the last call allocated one internal wire and emitted the one constraint
\* 1 * sum = wire
AddSubBound ==
    /\ r1cs.NbInternal = last.before.NbInternal + 1
    /\ NewConstraints = <<[L |-> one.LinExp, R |-> AddSubReduced,
                           O |-> <<Term(1, "internal", last.before.NbInternal)>>]>>
    /\ last.res.LinExp = <<Term(1, "internal", last.before.NbInternal)>>

\* the last call allocated no wire, emitted nothing and returned the sum
AddSubFree ==
    /\ r1cs.NbInternal = last.before.NbInternal
    /\ NewConstraints = <<>>
    /\ last.res.LinExp = AddSubReduced

\* C23: under PLONK, Add and Sub allocate an internal wire and emit a
\* constraint binding it to the sum exactly when the reduced linear expression
\* has more than one term, and allocate and emit nothing when it has one term
\* or none; under R1CS they never emit a constraint.
C23_AddSubPlonk ==
    (last.op \in {"Add", "Sub"}) =>
        IF r1cs.BackendID = "PLONK"
          THEN IF Len(AddSubReduced) > 1 THEN AddSubBound ELSE AddSubFree
          ELSE AddSubFree

\* what the code does: the wire and the constraint are left out only for a
\* reduced expression of exactly one term
AddSubBoundUnlessOneTerm ==
    (last.op \in {"Add", "Sub"}) =>
        IF r1cs.BackendID = "PLONK"
          THEN IF Len(AddSubReduced) = 1 THEN AddSubFree ELSE AddSubBound
          ELSE AddSubFree

(***************************************************************************)
(*                      Mul over several operands                          *)
(***************************************************************************)

\* for i := 2; i < len(vars); i++ { res = mul(res, vars[i]) }
RECURSIVE MulFold(_, _, _)
MulFold(acc, in, i) ==
    IF i > Len(in) THEN acc ELSE MulFold(Mul(acc.cs, Var(acc.res), in[i]), in, i + 1)

\* Mul with its variadic operands: res = i1 * i2 * ... in
MulAll(cs, in) == MulFold(Mul(cs, in[1], in[2]), in, 3)

ApiMulAll ==
    /\ UNCHANGED idleInBuilder
    /\ CanCall
    /\ \E i1, i2, i3 \in Operands : Called("MulAll", <<i1, i2, i3>>, MulAll(r1cs, <<i1, i2, i3>>))

MulNext == ApiSub \/ ApiMul \/ ApiMulAll

\* the number of non-constant operands among in[i..]
RECURSIVE NbNonConstant(_, _)
NbNonConstant(in, i) ==
    IF i > Len(in) THEN 0
    ELSE (IF IsConstant(constant(in[i])) THEN 0 ELSE 1) + NbNonConstant(in, i + 1)

\* the product of the values of in[i..] under the assignment A
RECURSIVE ProductFrom(_, _, _)
ProductFrom(in, i, A) ==
    IF i > Len(in) THEN 1
    ELSE (Eval(constant(in[i]).LinExp, A) * ProductFrom(in, i + 1, A)) % Modulus

\* the steps of the fold, each with its two operands and what it returned
RECURSIVE MulSteps(_, _, _)
MulSteps(acc, in, i) ==
    IF i > Len(in) THEN <<>>
    ELSE LET r == Mul(acc.cs, Var(acc.res), in[i])
         IN <<[v1 |-> acc.res, v2 |-> constant(in[i]), before |-> acc.cs, r |-> r]>>
              \o MulSteps(r, in, i + 1)

LastMulSteps ==
    LET r == Mul(last.before, last.args[1], last.args[2])
    IN <<[v1 |-> constant(last.args[1]), v2 |-> constant(last.args[2]),
          before |-> last.before, r |-> r]>> \o MulSteps(r, last.args, 3)

\* a step on two non-constant operands allocates the wire w and appends
\* L * R = w; a step on two constants returns the product mod p; a step on
\* one constant returns the other operand rescaled; the last two append nothing
MulStepAsStated(s) ==
    LET c1 == IsConstant(s.v1)
        c2 == IsConstant(s.v2)
        w  == <<Term(1, "internal", s.before.NbInternal)>>
    IN IF ~c1 /\ ~c2
         THEN /\ s.r.cs.NbInternal = s.before.NbInternal + 1
              /\ s.r.cs.Constraints = Append(s.before.Constraints, [L |-> s.v1.LinExp, R |-> s.v2.LinExp, O |-> w])
              /\ s.r.res.LinExp = w
         ELSE /\ s.r.cs.NbInternal = s.before.NbInternal
              /\ s.r.cs.Constraints = s.before.Constraints
              /\ IF c1 /\ c2
                   THEN s.r.res.LinExp
                          = <<Term((constantValue(s.v1) * constantValue(s.v2)) % Modulus, "public", 0)>>
                   ELSE LET v == IF c1 THEN s.v2 ELSE s.v1
                            k == IF c1 THEN constantValue(s.v1) ELSE constantValue(s.v2)
                        IN /\ Len(s.r.res.LinExp) = Len(v.LinExp)
                           /\ \A j \in DOMAIN v.LinExp :
                                 /\ Wire(s.r.res.LinExp[j]) = Wire(v.LinExp[j])
                                 /\ (s.r.res.LinExp[j].coeff - k * v.LinExp[j].coeff) % Modulus = 0

\* C24: Mul folds its operands left to right; a pairwise step allocates one
\* internal wire w and appends exactly one constraint L * R = w if and only if
\* both of its operands are non-constant, a step on two constants folds to the
\* product mod p and a step on one constant only rescales coefficients; Mul
\* over operands of which k >= 1 are non-constant appends exactly k - 1
\* constraints, and in every assignment satisfying them its value is the
\* field product of the values of the operands.
C24_MulFold ==
    (last.op \in {"Mul", "MulAll"}) =>
        /\ last.panic = ""
        /\ \A j \in DOMAIN LastMulSteps : MulStepAsStated(LastMulSteps[j])
        /\ LastMulSteps[Len(LastMulSteps)].r.cs = r1cs
        /\ LastMulSteps[Len(LastMulSteps)].r.res = last.res
        /\ NbNonConstant(last.args, 1) >= 1 =>
              Len(NewConstraints) = NbNonConstant(last.args, 1) - 1
        /\ \A A \in [ArgWires -> Fp] :
              LET S == SatExt(NewConstraints, 1, A) IN
              /\ S # {}
              /\ \A B \in S : Eval(last.res.LinExp, B) = ProductFrom(last.args, 1, A)

\* Mul(a, c, b) with a and b non-constant and c a constant other than 0 and
\* 1: one step rescales, the next one constrains
C24_Witness ==
    /\ last.op = "MulAll"
    /\ ~IsConstant(constant(last.args[1]))
    /\ last.args[2] = Raw(2)
    /\ ~IsConstant(constant(last.args[3]))
    /\ Len(NewConstraints) = 1
    /\ last.res.LinExp = <<Term(1, "internal", last.before.NbInternal)>>

(***************************************************************************)
(*     The polynomials of Prove: computeLRO, computeZ, blindPoly, computeH *)
(***************************************************************************)
\* fr.Element: the scalar field, here the field of 17 elements, which has
\* roots of unity of the orders 1, 2, 4, 8 and 16
FrModulus == 17

Fr == 0..(FrModulus - 1)

MaxPublic == 2
MaxConstraints == 2
MaxAssertions == 1
MaxValue == 1
MaxSeed == 2
MaxGamma == 2

\* x.Inverse: the inverse of 0 is 0
FrInverse(x) == IF x % FrModulus = 0 THEN 0 ELSE CHOOSE y \in Fr : (x * y) % FrModulus = 1

RECURSIVE FrExp(_, _)
FrExp(x, n) == IF n = 0 THEN 1 ELSE (x * FrExp(x, n - 1)) % FrModulus

\* a slice: its backing array up to the capacity, and its length
make(n, capacity) == [arr |-> [i \in 1..capacity |-> 0], len |-> n]

Elems(s) == SubSeq(s.arr, 1, s.len)

\* copy(dst, src) on a slice at least as long as src
copy(dst, src) ==
    [dst EXCEPT !.arr = [i \in DOMAIN dst.arr |-> IF i <= Len(src) THEN src[i] ELSE dst.arr[i]]]

\* ---- the proving key ------------------------------------------------------
RECURSIVE NextPowerOfTwo(_, _)
NextPowerOfTwo(n, p) == IF p >= n THEN p ELSE NextPowerOfTwo(n, 2 * p)

\* the generator of the subgroup of order N
Generator(N) == FrExp(3, (FrModulus - 1) \div N)

\* the Lagrange form of the permutation: the identity, or the three columns
\* rotated
PermutationKinds == {"identity", "rotated"}

NewKey(size, perm) ==
    LET N  == NextPowerOfTwo(size, 1)
        w  == Generator(N)
        u  == 3
        id == [c \in 1..3 |-> [i \in 1..N |-> (FrExp(u, c - 1) * FrExp(w, i - 1)) % FrModulus]]
        col(c) == IF perm = "identity" THEN id[c] ELSE id[(c % 3) + 1]
    IN [DomainNum |-> [Cardinality |-> N, Generator |-> w],
        DomainH   |-> [Cardinality |-> 4 * N],
        Shifter   |-> <<u, (u * u) % FrModulus>>,
        LS1 |-> col(1), LS2 |-> col(2), LS3 |-> col(3)]

NoKey ==
    [DomainNum |-> [Cardinality |-> 0, Generator |-> 0], DomainH |-> [Cardinality |-> 0],
     Shifter |-> <<0, 0>>, LS1 |-> <<>>, LS2 |-> <<>>, LS3 |-> <<>>]

NoPolys ==
    [l |-> <<>>, r |-> <<>>, o |-> <<>>, bcl |-> make(0, 0), bcr |-> make(0, 0),
     bco |-> make(0, 0), gamma |-> 0, z |-> make(0, 0), bz |-> make(0, 0),
     h |-> <<>>, panic |-> "", after |-> "none"]

\* ---- pk.DomainNum.FFTInverse(p, fft.DIF, 0); fft.BitReverse(p) ------------
RECURSIVE InterpolateSum(_, _, _, _)
InterpolateSum(v, wInv, j, i) ==
    IF i > Len(v) THEN 0
    ELSE v[i] * FrExp(wInv, ((i - 1) * j) % Len(v)) + InterpolateSum(v, wInv, j, i + 1)

\* the canonical form of the polynomial with the values v on the subgroup
FFTInverse(v, domain) ==
    LET N    == Len(v)
        wInv == FrInverse(domain.Generator)
        nInv == FrInverse(N)
    IN [j \in 1..N |-> (nInv * InterpolateSum(v, wInv, j - 1, 1)) % FrModulus]

\* ---- blindPoly -------------------------------------------------------------
RECURSIVE blindLoop(_, _, _, _)
blindLoop(res, rou, blindingPoly, i) ==
    IF i >= Len(blindingPoly) THEN [res |-> res, panic |-> ""]
    ELSE IF i >= res.len \/ rou + i >= res.len
           THEN [res |-> res, panic |-> "index out of range"]
           ELSE LET a == [res EXCEPT !.arr[i + 1] = (@ - blindingPoly[i + 1]) % FrModulus]
                    b == [a EXCEPT !.arr[rou + i + 1] = (@ + blindingPoly[i + 1]) % FrModulus]
                IN blindLoop(b, rou, blindingPoly, i + 1)

\* the blinding loop without the subtraction on the low coefficients
RECURSIVE blindLoopAddOnly(_, _, _, _)
blindLoopAddOnly(res, rou, blindingPoly, i) ==
    IF i >= Len(blindingPoly) THEN [res |-> res, panic |-> ""]
    ELSE blindLoopAddOnly([res EXCEPT !.arr[rou + i + 1] = (@ + blindingPoly[i + 1]) % FrModulus],
                          rou, blindingPoly, i + 1)

\* blindPoly that leaves the low coefficients as they are
blindPolyAddOnly(cp, rou, bo, blindingPoly) ==
    LET totalDegree == rou + bo IN
    IF totalDegree + 1 > Len(cp.arr)
      THEN [res |-> cp, panic |-> "slice bounds out of range"]
      ELSE blindLoopAddOnly([cp EXCEPT !.len = totalDegree + 1], rou, blindingPoly, 0)

\* blindPoly(cp, rou, bo), with the bo+1 values SetRandom returns
blindPoly(cp, rou, bo, blindingPoly) ==
    LET totalDegree == rou + bo IN
    IF totalDegree + 1 > Len(cp.arr)
      THEN [res |-> cp, panic |-> "slice bounds out of range"]
      ELSE blindLoop([cp EXCEPT !.len = totalDegree + 1], rou, blindingPoly, 0)

\* ---- computeLRO ------------------------------------------------------------
\* the rows the four loops write, in order: the row and the three indices
\* into solution
LRORows(sys, s) ==
    LET nbPub == sys.NbPublicVariables
        nbC   == Len(sys.Constraints)
        nbA   == Len(sys.Assertions)
        pad   == IF s > nbPub + nbC + nbA THEN s - (nbPub + nbC + nbA) ELSE 0
    IN [i \in 1..nbPub |-> [row |-> i - 1, L |-> i - 1, R |-> 0, O |-> 0]]
       \o [i \in 1..nbC |-> [row |-> nbPub + i - 1, L |-> sys.Constraints[i].L,
                             R |-> sys.Constraints[i].R, O |-> sys.Constraints[i].O]]
       \o [i \in 1..nbA |-> [row |-> nbPub + nbC + i - 1, L |-> sys.Assertions[i].L,
                             R |-> sys.Assertions[i].R, O |-> sys.Assertions[i].O]]
       \o [i \in 1..pad |-> [row |-> nbPub + nbC + nbA + i - 1, L |-> 0, R |-> 0, O |-> 0]]

RECURSIVE lroLoop(_, _, _, _, _)
lroLoop(acc, rows, k, s, sol) ==
    IF k > Len(rows) THEN acc
    ELSE LET w == rows[k] IN
         IF w.row >= s \/ w.L >= Len(sol) \/ w.R >= Len(sol) \/ w.O >= Len(sol)
           THEN [acc EXCEPT !.panic = "index out of range"]
           ELSE lroLoop([acc EXCEPT !.l[w.row + 1] = sol[w.L + 1],
                                    !.r[w.row + 1] = sol[w.R + 1],
                                    !.o[w.row + 1] = sol[w.O + 1]],
                        rows, k + 1, s, sol)

\* computeLRO whose placeholder rows hold the public input in r as well
computeLROPublicInR(sys, key, sol) ==
    LET s   == key.DomainNum.Cardinality
        zeros == [i \in 1..s |-> 0]
        res == lroLoop([l |-> zeros, r |-> zeros, o |-> zeros, panic |-> ""], LRORows(sys, s), 1, s, sol)
    IN [res EXCEPT !.r = [i \in DOMAIN res.r |->
                            IF i <= sys.NbPublicVariables THEN res.l[i] ELSE res.r[i]]]

computeLRO(sys, key, sol) ==
    LET s == key.DomainNum.Cardinality
        zeros == [i \in 1..s |-> 0]
    IN lroLoop([l |-> zeros, r |-> zeros, o |-> zeros, panic |-> ""], LRORows(sys, s), 1, s, sol)

\* ---- computeZ --------------------------------------------------------------
\* fr.BatchInvert: one inversion for the whole vector, zeros are left alone
RECURSIVE batchForward(_, _, _, _)
batchForward(a, res, acc, i) ==
    IF i > Len(a) THEN [res |-> res, acc |-> acc]
    ELSE IF a[i] = 0
           THEN batchForward(a, res, acc, i + 1)
           ELSE batchForward(a, [res EXCEPT ![i] = acc], (acc * a[i]) % FrModulus, i + 1)

RECURSIVE batchBackward(_, _, _, _)
batchBackward(a, res, acc, i) ==
    IF i < 1 THEN res
    ELSE IF a[i] = 0
           THEN batchBackward(a, res, acc, i - 1)
           ELSE batchBackward(a, [res EXCEPT ![i] = (@ * acc) % FrModulus],
                              (acc * a[i]) % FrModulus, i - 1)

BatchInvert(a) ==
    LET fwd == batchForward(a, [i \in DOMAIN a |-> 0], 1, 1)
    IN batchBackward(a, fwd.res, FrInverse(fwd.acc), Len(a))

\* (l_i + z^i + gamma)(r_i + u z^i + gamma)(o_i + u^2 z^i + gamma)
ZNumerator(l, r, o, u, gamma, i) ==
    ((l[i + 1] + u[1] + gamma) * (r[i + 1] + u[2] + gamma) * (o[i + 1] + u[3] + gamma))
       % FrModulus

\* (l_i + s1_i + gamma)(r_i + s2_i + gamma)(o_i + s3_i + gamma)
ZDenominator(l, r, o, key, gamma, i) ==
    ((l[i + 1] + key.LS1[i + 1] + gamma) * (r[i + 1] + key.LS2[i + 1] + gamma)
       * (o[i + 1] + key.LS3[i + 1] + gamma)) % FrModulus

\* the first loop: the products of the numerators, and the denominators
RECURSIVE zFirstLoop(_, _, _, _, _, _, _)
zFirstLoop(st, l, r, o, key, gamma, i) ==
    IF i >= key.DomainNum.Cardinality - 1 THEN st
    ELSE LET f == ZNumerator(l, r, o, st.u, gamma, i)
             g == ZDenominator(l, r, o, key, gamma, i)
         IN zFirstLoop([z    |-> [st.z EXCEPT !.arr[i + 2] = (st.z.arr[i + 1] * f) % FrModulus],
                        gInv |-> [st.gInv EXCEPT ![i + 2] = g],
                        u    |-> [c \in 1..3 |-> (st.u[c] * key.DomainNum.Generator) % FrModulus]],
                       l, r, o, key, gamma, i + 1)

\* the second loop: z[i] is multiplied by the product of the first i inverses
RECURSIVE zSecondLoop(_, _, _, _, _)
zSecondLoop(z, gInv, acc, i, nbElmts) ==
    IF i >= nbElmts THEN z
    ELSE LET a == (acc * gInv[i + 1]) % FrModulus
         IN zSecondLoop([z EXCEPT !.arr[i + 1] = (@ * a) % FrModulus], gInv, a, i + 1, nbElmts)

\* the second loop without the running product
RECURSIVE zSecondLoopNoAcc(_, _, _, _, _)
zSecondLoopNoAcc(z, gInv, acc, i, nbElmts) ==
    IF i >= nbElmts THEN z
    ELSE zSecondLoopNoAcc([z EXCEPT !.arr[i + 1] = (@ * gInv[i + 1]) % FrModulus],
                          gInv, acc, i + 1, nbElmts)

\* computeZ whose second loop multiplies z[i] by the i-th inverse alone
computeZNoAcc(l, r, o, key, gamma) ==
    LET N   == key.DomainNum.Cardinality
        z0  == [make(N, N + 3) EXCEPT !.arr[1] = 1]
        g0  == [i \in 1..N |-> IF i = 1 THEN 1 ELSE 0]
        st  == zFirstLoop([z |-> z0, gInv |-> g0, u |-> <<1, key.Shifter[1], key.Shifter[2]>>],
                          l, r, o, key, gamma, 0)
    IN zSecondLoopNoAcc(st.z, BatchInvert(st.gInv), 1, 1, N)

computeZ(l, r, o, key, gamma) ==
    LET N   == key.DomainNum.Cardinality
        z0  == [make(N, N + 3) EXCEPT !.arr[1] = 1]
        g0  == [i \in 1..N |-> IF i = 1 THEN 1 ELSE 0]
        st  == zFirstLoop([z |-> z0, gInv |-> g0, u |-> <<1, key.Shifter[1], key.Shifter[2]>>],
                          l, r, o, key, gamma, 0)
    IN zSecondLoop(st.z, BatchInvert(st.gInv), 1, 1, N)

\* ---- computeH --------------------------------------------------------------
\* h[from:to] of a slice of capacity n: the indices of the chunk
Reslice(n, from, to) ==
    IF from > to \/ to > n
      THEN [lo |-> 0, hi |-> 0, panic |-> "slice bounds out of range"]
      ELSE [lo |-> from, hi |-> to, panic |-> ""]

\* the three chunks of h; the coefficients of h are identified by their index
computeH(key) ==
    LET n  == key.DomainH.Cardinality
        m  == key.DomainNum.Cardinality
        h1 == Reslice(n, 0, m + 2)
        h2 == Reslice(n, m + 2, 2 * (m + 2))
        h3 == Reslice(n, 2 * (m + 2), 3 * (m + 2))
        first == IF h1.panic # "" THEN 1 ELSE IF h2.panic # "" THEN 2 ELSE IF h3.panic # "" THEN 3 ELSE 0
    IN [h |-> IF first = 0 THEN <<h1, h2, h3>> ELSE <<>>,
        panic |-> IF first = 0 THEN "" ELSE "slice bounds out of range"]

\* ---- the run of Prove ------------------------------------------------------
\* the L, R and O variables of a constraint
GateKinds == {[L |-> 0, R |-> 1, O |-> 2], [L |-> 2, R |-> 2, O |-> 1]}

PolyInit ==
    \E nbPub \in 0..MaxPublic, cons \in SeqsUpTo(GateKinds, MaxConstraints),
       asserts \in SeqsUpTo(GateKinds, MaxAssertions), perm \in PermutationKinds,
       sol \in [1..3 -> 0..MaxValue], seed \in 0..MaxSeed :
        /\ spr = [NbPublicVariables |-> nbPub, Constraints |-> cons, Assertions |-> asserts]
        /\ pk = NewKey(nbPub + Len(cons) + Len(asserts), perm)
        /\ solution = sol
        /\ rnd = [k \in 1..9 |-> (seed * k) % FrModulus]
        /\ ppc = "computeLRO"
        /\ poly = NoPolys

Stopped(next, panic) == IF panic = "" THEN next ELSE "panicked"

\* ll, lr, lo := computeLRO(spr, pk, solution)
ProveComputeLRO ==
    /\ UNCHANGED idleInPoly
    /\ ppc = "computeLRO"
    /\ LET res == computeLRO(spr, pk, solution)
       IN /\ poly' = [poly EXCEPT !.after = "computeLRO", !.l = res.l, !.r = res.r, !.o = res.o, !.panic = res.panic]
          /\ ppc' = Stopped("blindLRO", res.panic)
    /\ UNCHANGED <<pk, spr, solution, rnd>>

\* cl, cr, co in canonical form, on N+2 elements of capacity
Canonical(lagrange, extra) ==
    LET N == pk.DomainNum.Cardinality
    IN copy(make(N, N + extra), FFTInverse(lagrange, pk.DomainNum))

\* bcl, bcr, bco := blindPoly(cl, N, 1), blindPoly(cr, N, 1), blindPoly(co, N, 1)
ProveBlindLRO ==
    /\ UNCHANGED idleInPoly
    /\ ppc = "blindLRO"
    /\ LET N   == pk.DomainNum.Cardinality
           bcl == blindPoly(Canonical(poly.l, 2), N, 1, SubSeq(rnd, 1, 2))
           bcr == blindPoly(Canonical(poly.r, 2), N, 1, SubSeq(rnd, 3, 4))
           bco == blindPoly(Canonical(poly.o, 2), N, 1, SubSeq(rnd, 5, 6))
           p   == IF bcl.panic # "" THEN bcl.panic ELSE IF bcr.panic # "" THEN bcr.panic ELSE bco.panic
       IN /\ poly' = [poly EXCEPT !.after = "blindLRO", !.bcl = bcl.res, !.bcr = bcr.res, !.bco = bco.res, !.panic = p]
          /\ ppc' = Stopped("computeZ", p)
    /\ UNCHANGED <<pk, spr, solution, rnd>>

\* z = computeZ(ll, lr, lo, pk, gamma), with the challenge gamma
ProveComputeZ ==
    /\ UNCHANGED idleInPoly
    /\ ppc = "computeZ"
    /\ \E gamma \in 0..MaxGamma :
          /\ poly' = [poly EXCEPT !.after = "computeZ", !.gamma = gamma,
                                  !.z = computeZ(poly.l, poly.r, poly.o, pk, gamma)]
          /\ ppc' = "blindZ"
    /\ UNCHANGED <<pk, spr, solution, rnd>>

\* FFTInverse(z); BitReverse(z); bz := blindPoly(z, N, 2)
ProveBlindZ ==
    /\ UNCHANGED idleInPoly
    /\ ppc = "blindZ"
    /\ LET N  == pk.DomainNum.Cardinality
           zc == copy(poly.z, FFTInverse(Elems(poly.z), pk.DomainNum))
           bz == blindPoly(zc, N, 2, SubSeq(rnd, 7, 9))
       IN /\ poly' = [poly EXCEPT !.after = "blindZ", !.bz = bz.res, !.panic = bz.panic]
          /\ ppc' = Stopped("computeH", bz.panic)
    /\ UNCHANGED <<pk, spr, solution, rnd>>

\* h1, h2, h3 := computeH(pk, ...)
ProveComputeH ==
    /\ UNCHANGED idleInPoly
    /\ ppc = "computeH"
    /\ LET res == computeH(pk)
       IN /\ poly' = [poly EXCEPT !.after = "computeH", !.h = res.h, !.panic = res.panic]
          /\ ppc' = Stopped("done", res.panic)
    /\ UNCHANGED <<pk, spr, solution, rnd>>

PolyNext ==
    \/ ProveComputeLRO
    \/ ProveBlindLRO
    \/ ProveComputeZ
    \/ ProveBlindZ
    \/ ProveComputeH

\* ---- properties of the polynomials ----------------------------------------
DomainN == pk.DomainNum.Cardinality

\* the N-th roots of unity
RootsOfUnity == {FrExp(pk.DomainNum.Generator, i) : i \in 0..(DomainN - 1)}

RECURSIVE PolyEvalFrom(_, _, _)
PolyEvalFrom(c, x, i) ==
    IF i > Len(c) THEN 0 ELSE (c[i] + x * PolyEvalFrom(c, x, i + 1)) % FrModulus

\* the value at x of the polynomial with the coefficients c
PolyEval(c, x) == PolyEvalFrom(c, x, 1)

RECURSIVE ConvolutionAt(_, _, _, _)
ConvolutionAt(p, q, k, i) ==
    IF i > Len(p) THEN 0
    ELSE (IF k - i + 1 \in DOMAIN q THEN p[i] * q[k - i + 1] ELSE 0) + ConvolutionAt(p, q, k, i + 1)

\* the product of two polynomials
PolyMul(p, q) == [k \in 1..(Len(p) + Len(q) - 1) |-> ConvolutionAt(p, q, k, 1) % FrModulus]

\* X^N - 1
VanishingPoly == [k \in 1..(DomainN + 1) |-> IF k = 1 THEN FrModulus - 1 ELSE IF k = DomainN + 1 THEN 1 ELSE 0]

\* cp + Q(X) (X^N - 1) on n coefficients
Blinded(cp, Q, n) ==
    LET m == PolyMul(Q, VanishingPoly)
    IN [k \in 1..n |-> ((IF k <= Len(cp) THEN cp[k] ELSE 0) + (IF k <= Len(m) THEN m[k] ELSE 0))
                          % FrModulus]

\* res is what the statement says of blindPoly(cp, N, bo) with the random Q
BlindedAsStated(res, cp, bo, Q) ==
    /\ res.len = DomainN + bo + 1
    /\ res.len <= Len(res.arr)
    /\ Elems(res) = Blinded(cp, Q, DomainN + bo + 1)
    /\ \A x \in RootsOfUnity : PolyEval(Elems(res), x) = PolyEval(cp, x)

\* C25: with DomainH of cardinality 4N, computeH returns the three chunks of
\* the quotient array at [0, N+2), [N+2, 2(N+2)) and [2(N+2), 3(N+2)), and the
\* three ranges lie inside the array: 3(N+2) <= 4N.
C25_ComputeHChunks ==
    (poly.after = "computeH") =>
        /\ pk.DomainH.Cardinality = 4 * DomainN
        /\ poly.panic = ""
        /\ poly.h = <<[lo |-> 0, hi |-> DomainN + 2, panic |-> ""],
                      [lo |-> DomainN + 2, hi |-> 2 * (DomainN + 2), panic |-> ""],
                      [lo |-> 2 * (DomainN + 2), hi |-> 3 * (DomainN + 2), panic |-> ""]>>
        /\ 3 * (DomainN + 2) <= pk.DomainH.Cardinality

\* the chunks are as stated from N = 8 on
ComputeHChunksFromEight ==
    (poly.after = "computeH" /\ DomainN >= 8) =>
        /\ poly.panic = ""
        /\ poly.h = <<[lo |-> 0, hi |-> DomainN + 2, panic |-> ""],
                      [lo |-> DomainN + 2, hi |-> 2 * (DomainN + 2), panic |-> ""],
                      [lo |-> 2 * (DomainN + 2), hi |-> 3 * (DomainN + 2), panic |-> ""]>>
        /\ 3 * (DomainN + 2) <= pk.DomainH.Cardinality

\* the second slice expression of computeH is out of range for N < 2, the
\* third for N < 6
ComputeHPanicsBelowEight ==
    (poly.after = "computeH" /\ DomainN < 8) => poly.panic = "slice bounds out of range"

\* ---- the recurrence of Z ----------------------------------------------------
ZFactorF(i) ==
    LET w == FrExp(pk.DomainNum.Generator, i)
        u == pk.Shifter[1]
    IN ((poly.l[i + 1] + w + poly.gamma) * (poly.r[i + 1] + u * w + poly.gamma)
          * (poly.o[i + 1] + u * u * w + poly.gamma)) % FrModulus

ZFactorG(i) == ZDenominator(poly.l, poly.r, poly.o, pk, poly.gamma, i)

RECURSIVE ZRecurrence(_)
ZRecurrence(i) ==
    IF i = 0 THEN 1
    ELSE (ZRecurrence(i - 1) * ZFactorF(i - 1) * FrInverse(ZFactorG(i - 1))) % FrModulus

NoZeroDenominator == \A i \in 0..(DomainN - 2) : ZFactorG(i) # 0

\* C26: computeZ returns z with z[0] = 1 and z[i+1] = z[i] * f_i / g_i for
\* 0 <= i < N-1, whenever no g_i is zero: the two loops with the one batch
\* inversion give what the recurrence gives step by step.
C26_ComputeZ ==
    (poly.after = "computeZ" /\ NoZeroDenominator) =>
        /\ poly.z.len = DomainN
        /\ \A i \in 0..(DomainN - 1) : poly.z.arr[i + 1] = ZRecurrence(i)

C26_Witness ==
    /\ poly.after = "computeZ"
    /\ NoZeroDenominator
    /\ DomainN >= 4
    /\ \A i \in 1..3 : ZRecurrence(i) \notin {0, 1, ZRecurrence(i - 1)}

\* ---- blinding ----------------------------------------------------------------
\* C27: blindPoly(cp, N, bo) returns a polynomial of length N + bo + 1 equal to
\* cp + Q(X) (X^N - 1) for the polynomial Q of the bo + 1 random coefficients,
\* which takes the value of cp at every N-th root of unity; at the call sites
\* of Prove (bo = 1 on capacity N + 2, bo = 2 on capacity N + 3) the re-slice
\* and the index writes stay within the capacity.
C27_BlindPoly ==
    /\ (poly.after = "blindLRO") =>
          /\ poly.panic = ""
          /\ BlindedAsStated(poly.bcl, FFTInverse(poly.l, pk.DomainNum), 1, SubSeq(rnd, 1, 2))
          /\ BlindedAsStated(poly.bcr, FFTInverse(poly.r, pk.DomainNum), 1, SubSeq(rnd, 3, 4))
          /\ BlindedAsStated(poly.bco, FFTInverse(poly.o, pk.DomainNum), 1, SubSeq(rnd, 5, 6))
          /\ \A i \in 0..(DomainN - 1) :
                PolyEval(Elems(poly.bcl), FrExp(pk.DomainNum.Generator, i)) = poly.l[i + 1]
    /\ (poly.after = "blindZ") =>
          /\ poly.panic = ""
          /\ BlindedAsStated(poly.bz, FFTInverse(Elems(poly.z), pk.DomainNum), 2, SubSeq(rnd, 7, 9))

\* N = 1 and N >= 2, with a blinding polynomial that is not zero
C27_Witness ==
    /\ poly.after = "blindZ"
    /\ poly.panic = ""
    /\ DomainN = 2
    /\ rnd[7] # 0 /\ rnd[9] # 0
    /\ Elems(poly.bz) # FFTInverse(Elems(poly.z), pk.DomainNum) \o <<0, 0, 0>>
    /\ poly.z.arr[2] \notin {0, 1}

BlindPolyOnDomainOfOne ==
    /\ poly.after = "blindZ"
    /\ poly.panic = ""
    /\ DomainN = 1
    /\ rnd[8] # 0

\* ---- the layout of l, r, o ----------------------------------------------------
\* C28: computeLRO returns three vectors of length |DomainN|: rows
\* [0, NbPublic) hold l = the i-th public input and r = o = solution[0], the
\* next rows the L, R, O values of the constraints in order, then those of the
\* assertions, and every remaining row solution[0] in all three; no index is
\* out of bounds when NbPublic + #constraints + #assertions <= |DomainN|.
C28_ComputeLRO ==
    LET nbPub == spr.NbPublicVariables
        nbC   == Len(spr.Constraints)
        nbA   == Len(spr.Assertions)
        val(id) == solution[id + 1]
    IN (poly.after = "computeLRO" /\ nbPub + nbC + nbA <= DomainN) =>
          /\ poly.panic = ""
          /\ Len(poly.l) = DomainN /\ Len(poly.r) = DomainN /\ Len(poly.o) = DomainN
          /\ \A i \in 0..(DomainN - 1) :
                LET row == <<poly.l[i + 1], poly.r[i + 1], poly.o[i + 1]>> IN
                IF i < nbPub
                  THEN row = <<val(i), val(0), val(0)>>
                  ELSE IF i < nbPub + nbC
                         THEN LET c == spr.Constraints[i - nbPub + 1]
                              IN row = <<val(c.L), val(c.R), val(c.O)>>
                         ELSE IF i < nbPub + nbC + nbA
                                THEN LET a == spr.Assertions[i - nbPub - nbC + 1]
                                     IN row = <<val(a.L), val(a.R), val(a.O)>>
                                ELSE row = <<val(0), val(0), val(0)>>

\* two public inputs, a constraint, an assertion and padding rows, with a
\* second public input that differs from solution[0]
C28_Witness ==
    /\ poly.after = "computeLRO"
    /\ spr.NbPublicVariables = 2
    /\ Len(spr.Constraints) = 2
    /\ Len(spr.Assertions) = 1
    /\ DomainN = 8
    /\ solution[1] # solution[2]
    /\ solution[3] # solution[1]
    /\ spr.Constraints[1] # spr.Constraints[2]

(***************************************************************************)
(*                          The boolean marker                             *)
(***************************************************************************)

\* the wires of the two inputs of the circuit
InputWires == {Wire(Term(1, "public", 1)), Wire(Term(1, "secret", 0))}

\* the assignments of all wires that satisfy every constraint emitted so far
Satisfying == UNION {SatExt(r1cs.Constraints, 1, A) : A \in [InputWires -> Fp]}

\* v takes a value in {0,1} in every satisfying assignment
BooleanValued(v) == \A B \in Satisfying : Eval(v.LinExp, B) \in {0, 1}

\* C29: after any sequence of builder operations, every Variable whose
\* IsBoolean marker reads true takes a value in {0,1} in every assignment
\* satisfying the emitted constraints, the Variables returned by Neg and the
\* results of Xor and Or included.
C29_BooleanMarker ==
    \A k \in DOMAIN pool : IsMarked(r1cs, pool[k]) => BooleanValued(pool[k])

\* no two Variables of the circuit share a marker, and every Variable is a
\* single term: what is left when Neg, Add and Sub results are set aside
NoSharedMarker ==
    /\ \A j, k \in DOMAIN pool : pool[j].IsBoolean = pool[k].IsBoolean => j = k
    /\ \A k \in DOMAIN pool : Len(pool[k].LinExp) = 1

\* the marker is sound as long as no marker is shared and Xor and Or are
\* called on single terms
MarkerSoundWithoutSharing == NoSharedMarker => C29_BooleanMarker

\* Neg of a Variable that was constrained boolean: the result reads marked
\* and takes the value -1
NegOfBooleanReadsMarked ==
    /\ last.op = "Neg"
    /\ last.panic = ""
    /\ IsMarked(r1cs, last.res)
    /\ \E B \in Satisfying : Eval(last.res.LinExp, B) = Modulus - 1

(***************************************************************************)
(*        The term lists in memory: what the operations write to           *)
(***************************************************************************)
\* A linear expression is a slice: a backing array and a length. The arrays
\* live in heap; a Variable is [arr, len]; the terms are packed values.

\* the term list of the Variable v
Slice(h, v) == SubSeq(h[v.arr], 1, v.len)

ValueOf(h, v) == [LinExp |-> Slice(h, v), IsBoolean |-> 0]

\* make([]compiled.Term, n, capacity)
Alloc(h, ts, n) == [heap |-> Append(h, ts), res |-> [arr |-> Len(h) + 1, len |-> n]]

\* v.LinExp[i] = t
WriteAt(h, v, i, t) == [h EXCEPT ![v.arr][i + 1] = t]

\* append(dst.LinExp, ts...): in place while the capacity allows
AppendOnHeap(h, dst, ts) ==
    IF dst.len + Len(ts) <= Len(h[dst.arr])
      THEN [heap |-> [h EXCEPT ![dst.arr] =
                        [i \in DOMAIN @ |->
                           IF i > dst.len /\ i <= dst.len + Len(ts) THEN ts[i - dst.len] ELSE @[i]]],
            res  |-> [dst EXCEPT !.len = @ + Len(ts)]]
      ELSE Alloc(h, Slice(h, dst) \o ts, dst.len + Len(ts))

\* a Clone that copies the slice header only
CloneHeader(h, v) == [heap |-> h, res |-> v]

\* v.Clone(): a Variable on a copy of the terms
Clone(h, v) == Alloc(h, Slice(h, v), v.len)

\* cs.one(): a Variable on the ONE wire, on terms of its own
oneOnHeap(h) == Alloc(h, one.LinExp, 1)

\* an operand: a Variable the circuit holds
Held(v) == [kind |-> "var", v |-> v, n |-> 0]

\* cs.constant(input)
constantOnHeap(h, input) ==
    IF input.kind = "var"
      THEN [heap |-> h, res |-> input.v]
      ELSE IF input.n = 1
             THEN oneOnHeap(h)
             ELSE LET r == oneOnHeap(h)
                  IN [heap |-> WriteAt(r.heap, r.res, 0, Term(input.n, "public", 0)), res |-> r.res]

\* negateLinExp that negates the terms where they are
negateLinExpInPlace(h, v) ==
    [heap |-> [h EXCEPT ![v.arr] = negateLinExp(Slice(h, v)) \o SubSeq(@, v.len + 1, Len(@))],
     res  |-> v]

\* cs.negateLinExp(l): the result is a copy
negateLinExpOnHeap(h, v) == Alloc(h, negateLinExp(Slice(h, v)), v.len)

OkH(r) == [heap |-> r.heap, res |-> r.res, panic |-> ""]

\* Add: res.LinExp = make(0, s); append(res.LinExp, v.Clone().LinExp...); reduce
AddOnHeap(h, i1, i2) ==
    LET c1  == constantOnHeap(h, i1)
        c2  == constantOnHeap(c1.heap, i2)
        s   == c1.res.len + c2.res.len
        res == Alloc(c2.heap, [i \in 1..s |-> Term(0, "public", 0)], 0)
        l1  == Clone(res.heap, c1.res)
        a1  == AppendOnHeap(l1.heap, res.res, Slice(l1.heap, l1.res))
        l2  == Clone(a1.heap, c2.res)
        a2  == AppendOnHeap(l2.heap, a1.res, Slice(l2.heap, l2.res))
        red == reduce(ValueOf(a2.heap, a2.res)).LinExp
    IN OkH(Alloc(a2.heap, red, Len(red)))

\* Neg
NegOnHeap(h, i) ==
    LET c == constantOnHeap(h, i) IN
    IF IsConstant(ValueOf(c.heap, c.res))
      THEN OkH(constantOnHeap(c.heap, Raw((0 - constantValue(ValueOf(c.heap, c.res))) % Modulus)))
      ELSE OkH(negateLinExpOnHeap(c.heap, c.res))

\* Sub: the first operand cloned, the others negated, all appended; reduce
SubOnHeap(h, i1, i2) ==
    LET c1  == constantOnHeap(h, i1)
        c2  == constantOnHeap(c1.heap, i2)
        s   == c1.res.len + c2.res.len
        res == Alloc(c2.heap, [i \in 1..s |-> Term(0, "public", 0)], 0)
        c   == Clone(res.heap, c1.res)
        a1  == AppendOnHeap(c.heap, res.res, Slice(c.heap, c.res))
        neg == negateLinExpOnHeap(a1.heap, c2.res)
        a2  == AppendOnHeap(neg.heap, a1.res, Slice(neg.heap, neg.res))
        red == reduce(ValueOf(a2.heap, a2.res)).LinExp
    IN OkH(Alloc(a2.heap, red, Len(red)))

\* mulConstant: res := v1.Clone(); res.LinExp[i] = the rescaled term of v1
RECURSIVE rescaleLoop(_, _, _, _, _)
rescaleLoop(h, res, v1, lambda, i) ==
    IF i >= v1.len THEN h
    ELSE rescaleLoop(WriteAt(h, res, i, [h[v1.arr][i + 1] EXCEPT !.coeff = (@ * lambda) % Modulus]),
                     res, v1, lambda, i + 1)

mulConstantOnHeap(h, v1, c) ==
    LET res == Clone(h, v1)
    IN OkH([heap |-> rescaleLoop(res.heap, res.res, v1, constantValue(ValueOf(h, c)), 0),
            res  |-> res.res])

\* cs.newInternalVariable(): the wire is numbered by the arrays allocated
newInternalOnHeap(h) == Alloc(h, <<Term(1, "internal", Len(h))>>, 1)

\* Mul
MulOnHeap(h, i1, i2) ==
    LET c1 == constantOnHeap(h, i1)
        c2 == constantOnHeap(c1.heap, i2)
        h2 == c2.heap
        k1 == IsConstant(ValueOf(h2, c1.res))
        k2 == IsConstant(ValueOf(h2, c2.res))
    IN IF ~k1 /\ ~k2
         THEN OkH(newInternalOnHeap(h2))
         ELSE IF k1 /\ k2
                THEN OkH(constantOnHeap(h2, Raw((constantValue(ValueOf(h2, c1.res))
                                                   * constantValue(ValueOf(h2, c2.res))) % Modulus)))
                ELSE IF k1 THEN mulConstantOnHeap(h2, c2.res, c1.res)
                           ELSE mulConstantOnHeap(h2, c1.res, c2.res)

\* Div
DivOnHeap(h, i1, i2) ==
    LET c1 == constantOnHeap(h, i1)
        c2 == constantOnHeap(c1.heap, i2)
        h2 == c2.heap
    IN IF ~IsConstant(ValueOf(h2, c2.res))
         THEN LET res == newInternalOnHeap(h2)
                  inv == newInternalOnHeap(res.heap)
                  o   == oneOnHeap(inv.heap)
              IN OkH([heap |-> o.heap, res |-> res.res])
         ELSE IF constantValue(ValueOf(h2, c2.res)) % Modulus = 0
                THEN [heap |-> h2, res |-> c2.res, panic |-> "div by constant(0)"]
                ELSE LET b2 == ModInverse(constantValue(ValueOf(h2, c2.res))) IN
                     IF IsConstant(ValueOf(h2, c1.res))
                       THEN OkH(constantOnHeap(h2, Raw((b2 * constantValue(ValueOf(h2, c1.res))) % Modulus)))
                       ELSE LET cb == constantOnHeap(h2, Raw(b2))
                            IN mulConstantOnHeap(cb.heap, c1.res, cb.res)

\* ---- the calls ---------------------------------------------------------------
NoCallH(h) == [op |-> "none", args |-> <<>>, res |-> [arr |-> 0, len |-> 0], before |-> h, panic |-> ""]

\* the builder's ONE wire, the public input X and the secret input Y
HeapInit ==
    /\ heap = <<one.LinExp, <<Term(1, "public", 1)>>, <<Term(1, "secret", 0)>>>>
    /\ held = <<[arr |-> 2, len |-> 1], [arr |-> 3, len |-> 1]>>
    /\ lastH = NoCallH(<<one.LinExp, <<Term(1, "public", 1)>>, <<Term(1, "secret", 0)>>>>)
    /\ nopsH = 0

OperandsH == {Held(held[i]) : i \in DOMAIN held} \cup {Raw(n) : n \in 0..MaxConst}

CanCallH == nopsH < MaxOps /\ lastH.panic = "" /\ held # <<>>

CalledH(op, args, r) ==
    /\ heap' = r.heap
    /\ held' = IF r.panic = "" THEN Append(held, r.res) ELSE held
    /\ lastH' = [op |-> op, args |-> args, res |-> r.res, before |-> heap, panic |-> r.panic]
    /\ nopsH' = nopsH + 1

HeapAdd ==
    /\ UNCHANGED idleInHeap
    /\ CanCallH
    /\ \E i1, i2 \in OperandsH : CalledH("Add", <<i1, i2>>, AddOnHeap(heap, i1, i2))

HeapSub ==
    /\ UNCHANGED idleInHeap
    /\ CanCallH
    /\ \E i1, i2 \in OperandsH : CalledH("Sub", <<i1, i2>>, SubOnHeap(heap, i1, i2))

HeapNeg ==
    /\ UNCHANGED idleInHeap
    /\ CanCallH
    /\ \E i \in OperandsH : CalledH("Neg", <<i>>, NegOnHeap(heap, i))

HeapMul ==
    /\ UNCHANGED idleInHeap
    /\ CanCallH
    /\ \E i1, i2 \in OperandsH : CalledH("Mul", <<i1, i2>>, MulOnHeap(heap, i1, i2))

HeapDiv ==
    /\ UNCHANGED idleInHeap
    /\ CanCallH
    /\ \E i1, i2 \in OperandsH : CalledH("Div", <<i1, i2>>, DivOnHeap(heap, i1, i2))

HeapNext == HeapAdd \/ HeapSub \/ HeapNeg \/ HeapMul \/ HeapDiv

NegatedOnCopy ==
    /\ lastH.op \in {"Neg", "Sub"}
    /\ lastH.args[Len(lastH.args)].kind = "var"
    /\ lastH.args[Len(lastH.args)].v.len = 2
    /\ lastH.res.arr > Len(lastH.before)

(***************************************************************************)
(*                          Specifications                                 *)
(***************************************************************************)
ProveIdle ==
    /\ pc = "done"
    /\ wk = [w \in Workers |-> "idle"]
    /\ mem = [v \in MemVars |-> IF v \in ErrVars THEN "nil" ELSE "unset"]
    /\ fs = <<>>
    /\ outcome = [s \in Steps |-> "pending"]
    /\ ret = [proof |-> "none", err |-> "none"]
    /\ closeOrder = <<>>

CompileIdle ==
    /\ circ = [leaves |-> <<>>, prog |-> <<>>, end |-> "nil", det |-> TRUE]
    /\ copts = <<>>
    /\ bchecks = FALSE
    /\ RunIdle
    /\ hpc = "idle"
    /\ hres = <<>>
    /\ cache = NilCcs
    /\ hret = NoHelperReturn
    /\ hcalls = 0

BuilderIdle ==
    /\ r1cs = EmptyBuilder("GROTH16")
    /\ pool = <<>>
    /\ last = NoCall(EmptyBuilder("GROTH16"))
    /\ nops = 0

PlonkIdle ==
    /\ system = EmptySystem
    /\ terms = <<>>
    /\ lastP = NoCallP(EmptySystem)
    /\ nopsP = 0

FuzzIdle ==
    /\ engineOk = [w \in Witnesses |-> TRUE]
    /\ solverOk = [w \in Witnesses |-> TRUE]
    /\ compileOk = TRUE
    /\ fuzzCount = 0
    /\ fpc = "done"
    /\ fw = ZeroWitness
    /\ flog = <<>>
    /\ valid = 0

HeapIdle ==
    /\ heap = <<>>
    /\ held = <<>>
    /\ lastH = NoCallH(<<>>)
    /\ nopsH = 0

PolyIdle ==
    /\ pk = NoKey
    /\ spr = [NbPublicVariables |-> 0, Constraints |-> <<>>, Assertions |-> <<>>]
    /\ solution = <<>>
    /\ rnd = <<>>
    /\ ppc = "idle"
    /\ poly = NoPolys

InitProve == ProveInit /\ CompileIdle /\ BuilderIdle /\ PlonkIdle /\ FuzzIdle /\ PolyIdle /\ HeapIdle

SpecProve == InitProve /\ [][ProveNext]_vars

InitCompile == CompileInit /\ ProveIdle /\ BuilderIdle /\ PlonkIdle /\ FuzzIdle /\ PolyIdle /\ HeapIdle

SpecCompile == InitCompile /\ [][CompileNext]_vars

InitBuilder == BuilderInit /\ ProveIdle /\ CompileIdle /\ PlonkIdle /\ FuzzIdle /\ PolyIdle /\ HeapIdle

SpecBuilder == InitBuilder /\ [][BuilderNext]_vars

SpecBits == InitBuilder /\ [][BitsNext]_vars

SpecDiv == InitBuilder /\ [][DivNext]_vars

SpecBool == InitBuilder /\ [][BoolNext]_vars

SpecMul == InitBuilder /\ [][MulNext]_vars

InitPlonk == PlonkInit /\ ProveIdle /\ CompileIdle /\ BuilderIdle /\ FuzzIdle /\ PolyIdle /\ HeapIdle

SpecPlonk == InitPlonk /\ [][PlonkNext]_vars

\* Compile creates the builder of one backend
InitErrors ==
    /\ ProveIdle /\ CompileIdle /\ FuzzIdle /\ PolyIdle /\ HeapIdle
    /\ \/ BuilderInit /\ PlonkIdle
       \/ PlonkInit /\ BuilderIdle

SpecErrors == InitErrors /\ [][ErrorsNext]_vars

InitFuzz == FuzzInit /\ ProveIdle /\ CompileIdle /\ BuilderIdle /\ PlonkIdle /\ PolyIdle /\ HeapIdle

SpecFuzz == InitFuzz /\ [][FuzzNext]_vars

InitPoly == PolyInit /\ ProveIdle /\ CompileIdle /\ BuilderIdle /\ PlonkIdle /\ FuzzIdle /\ HeapIdle

InitHeap == HeapInit /\ ProveIdle /\ CompileIdle /\ BuilderIdle /\ PlonkIdle /\ FuzzIdle /\ PolyIdle

SpecHeap == InitHeap /\ [][HeapNext]_vars

SpecPoly == InitPoly /\ [][PolyNext]_vars

InitLookup2 == Lookup2Init /\ ProveIdle /\ CompileIdle /\ PlonkIdle /\ FuzzIdle /\ PolyIdle /\ HeapIdle

SpecLookup2 == InitLookup2 /\ [][Lookup2Next]_vars

====
